---------------------------- MODULE Spec2Model ----------------------------
(***************************************************************************)
(* PyxiCloud: a WebSocket document store.                                  *)
(*                                                                         *)
(* Three programs of the repository are modelled:                          *)
(*   - src/PyxiCloud.js        the server with sessions, a schema map and  *)
(*                             synchronous file I/O (insertOne, ...);      *)
(*   - src/unnamed/part_000    the server variant whose mutations await    *)
(*                             file I/O (insertDocument, ...);             *)
(*   - src/Database/schema.js  Schema.validateDocument, over nested values *)
(*                             of their own (see JsValue).                 *)
(*                                                                         *)
(* In the two servers JavaScript values are strings: "n1","n2","n3" are    *)
(* the numbers 1,2,3;                                                      *)
(* "sa","sb","sc" the strings 'a','b','c'; "null" is null and "UNDEF" is   *)
(* undefined.                                                              *)
(* An object (a document, a query, a schema) is the sequence of its own    *)
(* properties in insertion order, which is the order Object.entries and    *)
(* JSON.stringify walk.                                                    *)
(***************************************************************************)
EXTENDS Integers, Sequences, FiniteSets, TLC

VARIABLES
    clients,          \* this.clients: the connections in the active set
    isAuthenticated,  \* ws.isAuthenticated, per connection
    sessionToken,     \* ws.sessionToken, per connection (0 is null)
    sessions,         \* this.sessions: the tokens that have a session
    nextToken,        \* the tokens generateSessionToken has handed out
    rateLimiter,      \* this.rateLimiter: per address, the accepted timestamps
    now,              \* Date.now()
    schemas,          \* this.schemas: collection name -> schema definition
    schemaFiles,      \* Database/schemas/<name>.json
    files,            \* Database/collections/<name>.json
    microtasks,       \* suspended handleQuery continuations, in resumption order
    unhandled,        \* promises rejected with nobody awaiting them
    out,              \* the frames the last step sent, in order
    aFiles,           \* part_000: Database/collections/<name>.json
    aTasks,           \* part_000: the requests in flight, one per task
    aOut,             \* part_000: the frames the last step sent
    mSchema,          \* schema.js: the schemaDefinition of the Schema
    mDocument,        \* schema.js: the document handed to validateDocument
    mValid,           \* schema.js: what validateDocument returned or threw
    config,           \* config.js: the access lists and the connection limit
    isAlive,          \* ws.isAlive, per connection
    terminated,       \* the connections whose 'close' event is yet to come
    silent,           \* history: the connections pinged at the last
                      \* heartbeat tick that have sent no pong since
    backups,          \* Database/backups: the snapshots
    exited,           \* an uncaught exception has ended the process
    mData,            \* model.js: the documents of the collection file
    mCache            \* model.js: this.cache, the documents in key order

vars == <<clients, isAuthenticated, sessionToken, sessions, nextToken,
          rateLimiter, now, schemas, schemaFiles, files, microtasks,
          unhandled, out, aFiles, aTasks, aOut, mSchema, mDocument, mValid,
          config, isAlive, terminated, silent, backups, exited, mData,
          mCache>>

serverVars == <<clients, isAuthenticated, sessionToken, sessions, nextToken,
                rateLimiter, now, schemas, schemaFiles, files, microtasks,
                unhandled, out, config, isAlive, terminated, silent,
                backups, exited>>

asyncVars == <<aFiles, aTasks, aOut>>

libraryVars == <<mSchema, mDocument, mValid, mData, mCache>>

(***************************************************************************)
(* Bounds of the model.                                                    *)
(***************************************************************************)
MaxDocs == 2      \* a collection is not grown beyond this many documents
MaxPending == 1   \* suspended continuations of mutations at any one time
MaxReads == 1     \* suspended continuations of find and findOne at any one time
MaxTokens == 2    \* session tokens handed out in one run
MaxTicks == 2     \* half intervals of the rate limiter that the clock advances
MaxOther == 1     \* messages followed from the second address
MaxMessages == 1  \* messages followed per address under the access lists

(***************************************************************************)
(* JavaScript values and objects.                                          *)
(***************************************************************************)
UNDEF == "UNDEF"
NULL == "null"
NumVals == {"n1", "n2", "n3"}
StrVals == {"sa", "sb", "sc"}

\* a === b for the scalars of the model
StrictEq(a, b) == a = b

\* Object.keys(o)
Keys(o) == {o[i][1] : i \in DOMAIN o}

\* key in o
Has(o, k) == \E i \in DOMAIN o : o[i][1] = k

\* o[k]
Get(o, k) ==
    IF Has(o, k) THEN o[CHOOSE i \in DOMAIN o : o[i][1] = k][2] ELSE UNDEF

\* o[k] = v : an own property keeps its place, a new one goes last
Put(o, k, v) ==
    IF Has(o, k)
    THEN [i \in DOMAIN o |-> IF o[i][1] = k THEN <<k, v>> ELSE o[i]]
    ELSE Append(o, <<k, v>>)

\* delete o[k]
RECURSIVE Delete(_, _)
Delete(o, k) ==
    IF o = <<>> THEN <<>>
    ELSE IF Head(o)[1] = k THEN Delete(Tail(o), k)
    ELSE <<Head(o)>> \o Delete(Tail(o), k)

\* { ...a, ...b }
RECURSIVE Spread(_, _)
Spread(a, b) ==
    IF b = <<>> THEN a ELSE Spread(Put(a, Head(b)[1], Head(b)[2]), Tail(b))

\* JSON.parse(JSON.stringify(o)) of one object: a property whose value is
\* undefined is not written
RECURSIVE JSONObject(_)
JSONObject(o) ==
    IF o = <<>> THEN <<>>
    ELSE IF Head(o)[2] = UNDEF THEN JSONObject(Tail(o))
    ELSE <<Head(o)>> \o JSONObject(Tail(o))

\* JSON.parse(JSON.stringify(collection)) of an array of documents
JSONRoundTrip(collection) ==
    [i \in DOMAIN collection |-> JSONObject(collection[i])]

Msg(text, arg) == [text |-> text, arg |-> arg]
NoMsg == Msg("", "")
TypeErrorMsg == Msg("TypeError", "")

NoFile == [exists |-> FALSE, docs |-> <<>>]
File(docs) == [exists |-> TRUE, docs |-> docs]


(***************************************************************************)
(* src/PyxiCloud.js: the query matcher.                                    *)
(* A query is the sequence of its <<key, condition>> entries; a condition  *)
(* is [isObject, value, operators]: a scalar to equal, or the sequence of  *)
(* <<operator, operand>> entries of an operator object; an operand is      *)
(* [isArray, value, items].  A parameter the request may leave out is      *)
(* [defined, v].                                                           *)
(***************************************************************************)
Defined(v) == [defined |-> TRUE, v |-> v]
Undefined == [defined |-> FALSE, v |-> <<>>]

Scalar(v) == [isObject |-> FALSE, value |-> v, operators |-> <<>>]
Operators(ops) == [isObject |-> TRUE, value |-> UNDEF, operators |-> ops]
Operand(v) == [isArray |-> FALSE, value |-> v, items |-> <<>>]
ArrayOperand(items) == [isArray |-> TRUE, value |-> UNDEF, items |-> items]

SupportedOperators == {"$eq", "$ne", "$gt", "$gte", "$lt", "$lte", "$in", "$nin"}

\* ToNumber(v) is not NaN
IsNumber(v) == v \in NumVals \cup {NULL}

\* ToNumber(v)
ToNumber(v) ==
    CASE v = "n1" -> 1 [] v = "n2" -> 2 [] v = "n3" -> 3 [] OTHER -> 0

\* the place of a string of the model in the order of strings
StringRank(v) == CASE v = "sa" -> 1 [] v = "sb" -> 2 [] OTHER -> 3

\* a < b : two strings compare as strings, anything else as numbers
LessThan(a, b) ==
    IF a \in StrVals /\ b \in StrVals THEN StringRank(a) < StringRank(b)
    ELSE IsNumber(a) /\ IsNumber(b) /\ ToNumber(a) < ToNumber(b)

\* a <= b taken for a < b
LessOrEqualStrict(a, b) == LessThan(a, b)

\* a <= b
LessOrEqual(a, b) ==
    IF a \in StrVals /\ b \in StrVals THEN StringRank(a) <= StringRank(b)
    ELSE IsNumber(a) /\ IsNumber(b) /\ ToNumber(a) <= ToNumber(b)

\* operand.includes(fieldValue)
Includes(items, v) == \E i \in DOMAIN items : StrictEq(items[i], v)

True == [r |-> "true", err |-> NoMsg]
False == [r |-> "false", err |-> NoMsg]
Throw(err) == [r |-> "throw", err |-> err]

\* one case of the switch of matchOperators: does the operator hold?
\* (an array is never === a scalar; the model's ordering operands are scalars)
OperatorHolds(operator, fieldValue, operand) ==
    CASE operator = "$eq" -> ~operand.isArray /\ StrictEq(fieldValue, operand.value)
      [] operator = "$ne" -> operand.isArray \/ ~StrictEq(fieldValue, operand.value)
      [] operator = "$gt" -> ~operand.isArray /\ LessThan(operand.value, fieldValue)
      [] operator = "$gte" -> ~operand.isArray /\ LessOrEqual(operand.value, fieldValue)
      [] operator = "$lt" -> ~operand.isArray /\ LessThan(fieldValue, operand.value)
      [] operator = "$lte" -> ~operand.isArray /\ LessOrEqual(fieldValue, operand.value)
      [] operator = "$in" -> operand.isArray /\ Includes(operand.items, fieldValue)
      [] operator = "$nin" -> operand.isArray /\ ~Includes(operand.items, fieldValue)
      [] OTHER -> FALSE

RECURSIVE matchOperators(_, _)
matchOperators(fieldValue, operators) ==
    IF operators = <<>> THEN True
    ELSE LET operator == Head(operators)[1]
             operand == Head(operators)[2]
         IN  IF operator \notin SupportedOperators
             THEN Throw(Msg("Unsupported operator", operator))
             ELSE IF ~OperatorHolds(operator, fieldValue, operand) THEN False
             ELSE matchOperators(fieldValue, Tail(operators))

RECURSIVE matchEntries(_, _)
matchEntries(doc, entries) ==
    IF entries = <<>> THEN True
    ELSE LET key == Head(entries)[1]
             value == Head(entries)[2]
         IN  IF value.isObject
             THEN LET m == matchOperators(Get(doc, key), value.operators)
                  IN  IF m.r = "true" THEN matchEntries(doc, Tail(entries)) ELSE m
             ELSE IF ~StrictEq(Get(doc, key), value.value) THEN False
             ELSE matchEntries(doc, Tail(entries))

\* Object.entries(undefined) throws
matchQuery(doc, query) ==
    IF ~query.defined THEN Throw(TypeErrorMsg) ELSE matchEntries(doc, query.v)

\* the results of the callback on every document, in order
MatchResults(collection, query) ==
    [i \in DOMAIN collection |-> matchQuery(collection[i], query)]

\* the index of the first call of the callback that throws, 0 if none does
FirstThrow(results) ==
    IF \E i \in DOMAIN results : results[i].r = "throw"
    THEN CHOOSE i \in DOMAIN results :
            /\ results[i].r = "throw"
            /\ \A j \in 1..(i - 1) : results[j].r # "throw"
    ELSE 0

\* the index of the first document that matches, 0 if none does
FirstMatch(results) ==
    IF \E i \in DOMAIN results : results[i].r = "true"
    THEN CHOOSE i \in DOMAIN results :
            /\ results[i].r = "true"
            /\ \A j \in 1..(i - 1) : results[j].r # "true"
    ELSE 0

\* the subsequence of the documents whose index is in keep
RECURSIVE Select(_, _, _)
Select(collection, keep, i) ==
    IF i > Len(collection) THEN <<>>
    ELSE (IF i \in keep THEN <<collection[i]>> ELSE <<>>)
         \o Select(collection, keep, i + 1)


(***************************************************************************)
(* src/PyxiCloud.js: the collection operations.                            *)
(* A schema is the sequence of its field definitions                       *)
(* [name, required, unique, hasDefault, default], in declaration order.    *)
(* fs is the collections directory: name -> [exists, docs].  An operation  *)
(* yields [ok, err, value, file]: whether it returned or threw, the error  *)
(* thrown, the value returned, and the collection's file afterwards.       *)
(***************************************************************************)
Field(name, required, unique, hasDefault, default) ==
    [name |-> name, required |-> required, unique |-> unique,
     hasDefault |-> hasDefault, default |-> default, properties |-> <<>>]

\* a field definition of type 'object' with the definitions of its properties
ObjectField(name, properties) ==
    [Field(name, FALSE, FALSE, FALSE, UNDEF) EXCEPT !.properties = properties]

Returned(value, file) == [ok |-> TRUE, err |-> NoMsg, value |-> value, file |-> file]
Thrown(err, file) == [ok |-> FALSE, err |-> err, value |-> [kind |-> "none"], file |-> file]

DocValue(doc) == [kind |-> "doc", doc |-> doc]
DocsValue(docs) == [kind |-> "docs", docs |-> docs]
NullValue == [kind |-> "null"]
Counts(matched, modified) ==
    [kind |-> "counts", matchedCount |-> matched, modifiedCount |-> modified]
Deleted(n) == [kind |-> "deleted", deletedCount |-> n]
TextValue(text) == [kind |-> "text", text |-> text]
TokenValue(token) == [kind |-> "token", sessionToken |-> token]

DuplicateMsg(field) == Msg("Duplicate value for unique field", field)
RequiredMsg(field) == Msg("Required field is missing", field)

\* fs.writeFileSync(collectionPath, JSON.stringify(collection)), as read back
WriteCollection(collection) == File(JSONRoundTrip(collection))

\* fs.existsSync(path) ? JSON.parse(fs.readFileSync(path)) : []
ReadOrEmpty(fs, collectionName) ==
    IF fs[collectionName].exists THEN fs[collectionName].docs ELSE <<>>

\* yields [ok, err, doc]
RECURSIVE validateAndApplyDefaults(_, _)
validateAndApplyDefaults(document, schema) ==
    IF schema = <<>> THEN [ok |-> TRUE, err |-> NoMsg, doc |-> document]
    ELSE LET fieldSchema == Head(schema)
             field == fieldSchema.name
         IN  IF Has(document, field)
             THEN validateAndApplyDefaults(document, Tail(schema))
             ELSE IF fieldSchema.hasDefault
             THEN validateAndApplyDefaults(
                      Put(document, field, fieldSchema.default), Tail(schema))
             ELSE IF fieldSchema.required
             THEN [ok |-> FALSE, err |-> RequiredMsg(field), doc |-> document]
             ELSE validateAndApplyDefaults(document, Tail(schema))

\* the loop "Check for unique constraints" of insertOne: the error it
\* throws, NoMsg if it throws none
RECURSIVE InsertViolation(_, _, _)
InsertViolation(schema, document, collection) ==
    IF schema = <<>> THEN NoMsg
    ELSE LET field == Head(schema).name
         IN  IF /\ Head(schema).unique
                /\ Get(document, field) # UNDEF
                /\ \E i \in DOMAIN collection :
                      StrictEq(Get(collection[i], field), Get(document, field))
             THEN DuplicateMsg(field)
             ELSE InsertViolation(Tail(schema), document, collection)

\* insertOne without its scan of the collection
insertOneUnscanned(collectionName, document, schema, fs) ==
    LET v == validateAndApplyDefaults(IF document.defined THEN document.v ELSE <<>>,
                                      schema)
        collection == ReadOrEmpty(fs, collectionName)
    IN  IF ~v.ok THEN Thrown(v.err, fs[collectionName])
        ELSE Returned(DocValue(v.doc), WriteCollection(Append(collection, v.doc)))

\* insertOne writing the new document over a collection it did not read
insertOneUnread(collectionName, document, schema, fs) ==
    LET v == validateAndApplyDefaults(IF document.defined THEN document.v ELSE <<>>,
                                      schema)
        collection == ReadOrEmpty(fs, collectionName)
        dup == InsertViolation(schema, v.doc, collection)
    IN  IF ~v.ok THEN Thrown(v.err, fs[collectionName])
        ELSE IF dup # NoMsg THEN Thrown(dup, fs[collectionName])
        ELSE Returned(DocValue(v.doc), WriteCollection(<<v.doc>>))

\* insertOne storing the document as it was received
insertOneUndefaulted(collectionName, document, schema, fs) ==
    LET v == validateAndApplyDefaults(IF document.defined THEN document.v ELSE <<>>,
                                      schema)
        collection == ReadOrEmpty(fs, collectionName)
        dup == InsertViolation(schema, v.doc, collection)
    IN  IF ~v.ok THEN Thrown(v.err, fs[collectionName])
        ELSE IF dup # NoMsg THEN Thrown(dup, fs[collectionName])
        ELSE Returned(DocValue(v.doc),
                      WriteCollection(Append(collection, document.v)))

insertOne(collectionName, document, schema, fs) ==
    LET v == validateAndApplyDefaults(IF document.defined THEN document.v ELSE <<>>,
                                      schema)
        collection == ReadOrEmpty(fs, collectionName)
        dup == InsertViolation(schema, v.doc, collection)
    IN  IF ~v.ok THEN Thrown(v.err, fs[collectionName])
        ELSE IF dup # NoMsg THEN Thrown(dup, fs[collectionName])
        ELSE Returned(DocValue(v.doc), WriteCollection(Append(collection, v.doc)))

\* documents.map(doc => this.validateAndApplyDefaults(doc, schema))
ValidateAll(documents, schema) ==
    [i \in DOMAIN documents |-> validateAndApplyDefaults(documents[i], schema)]

\* the nested loop of insertMany: each document against the collection read
RECURSIVE InsertManyViolation(_, _, _)
InsertManyViolation(schema, documents, collection) ==
    IF documents = <<>> THEN NoMsg
    ELSE LET dup == InsertViolation(schema, Head(documents), collection)
         IN  IF dup # NoMsg THEN dup
             ELSE InsertManyViolation(schema, Tail(documents), collection)

\* insertMany pushing and writing document by document: what was pushed
\* before the first violation stays in the file
insertManyOneByOne(collectionName, documents, schema, fs) ==
    IF ~documents.defined THEN Thrown(TypeErrorMsg, fs[collectionName])
    ELSE
    LET vs == ValidateAll(documents.v, schema)
        collection == ReadOrEmpty(fs, collectionName)
        bad == {i \in DOMAIN vs :
                   \/ ~vs[i].ok
                   \/ InsertViolation(schema, vs[i].doc, collection) # NoMsg}
        firstBad == CHOOSE i \in bad : \A j \in bad : i <= j
        validatedDocuments == [i \in DOMAIN vs |-> vs[i].doc]
    IN  IF bad # {}
        THEN Thrown(IF ~vs[firstBad].ok THEN vs[firstBad].err
                    ELSE InsertViolation(schema, vs[firstBad].doc, collection),
                    IF firstBad = 1 THEN fs[collectionName]
                    ELSE WriteCollection(collection
                            \o SubSeq(validatedDocuments, 1, firstBad - 1)))
        ELSE Returned(DocsValue(validatedDocuments),
                      WriteCollection(collection \o validatedDocuments))

insertMany(collectionName, documents, schema, fs) ==
    IF ~documents.defined THEN Thrown(TypeErrorMsg, fs[collectionName])
    ELSE
    LET vs == ValidateAll(documents.v, schema)
        bad == {i \in DOMAIN vs : ~vs[i].ok}
        firstBad == CHOOSE i \in bad : \A j \in bad : i <= j
        validatedDocuments == [i \in DOMAIN vs |-> vs[i].doc]
        collection == ReadOrEmpty(fs, collectionName)
        dup == InsertManyViolation(schema, validatedDocuments, collection)
    IN  IF bad # {} THEN Thrown(vs[firstBad].err, fs[collectionName])
        ELSE IF dup # NoMsg THEN Thrown(dup, fs[collectionName])
        ELSE Returned(DocsValue(validatedDocuments),
                      WriteCollection(collection \o validatedDocuments))

find(collectionName, query, fs) ==
    IF ~fs[collectionName].exists
    THEN Returned(DocsValue(<<>>), fs[collectionName])
    ELSE LET collection == fs[collectionName].docs
             results == MatchResults(collection, query)
             t == FirstThrow(results)
         IN  IF t # 0 THEN Thrown(results[t].err, fs[collectionName])
             ELSE Returned(
                    DocsValue(Select(collection,
                        {i \in DOMAIN collection : results[i].r = "true"}, 1)),
                    fs[collectionName])

findOne(collectionName, query, fs) ==
    IF ~fs[collectionName].exists THEN Returned(NullValue, fs[collectionName])
    ELSE LET collection == fs[collectionName].docs
             results == MatchResults(collection, query)
             t == FirstThrow(results)
             m == FirstMatch(results)
         IN  IF t # 0 /\ (m = 0 \/ t < m)
             THEN Thrown(results[t].err, fs[collectionName])
             ELSE IF m = 0 THEN Returned(NullValue, fs[collectionName])
             ELSE Returned(DocValue(collection[m]), fs[collectionName])

\* the loop "Check for unique constraints" of updateOne and updateMany for
\* the document at index: the error it throws, NoMsg if it throws none
RECURSIVE UpdateViolation(_, _, _, _)
UpdateViolation(schema, updateFields, collection, index) ==
    IF schema = <<>> THEN NoMsg
    ELSE LET field == Head(schema).name
         IN  IF ~Head(schema).unique
             THEN UpdateViolation(Tail(schema), updateFields, collection, index)
             ELSE IF ~updateFields.defined THEN TypeErrorMsg
             ELSE IF /\ Get(updateFields.v, field) # UNDEF
                     /\ \E i \in DOMAIN collection :
                           /\ i # index
                           /\ StrictEq(Get(collection[i], field),
                                       Get(updateFields.v, field))
             THEN DuplicateMsg(field)
             ELSE UpdateViolation(Tail(schema), updateFields, collection, index)

\* updateOne that rewrites the last document that matches
updateOneLast(collectionName, query, updateFields, schema, fs) ==
    IF ~fs[collectionName].exists
    THEN Returned(Counts(0, 0), fs[collectionName])
    ELSE LET collection == fs[collectionName].docs
             results == MatchResults(collection, query)
             t == FirstThrow(results)
             index == IF FirstMatch(results) = 0 THEN 0
                      ELSE CHOOSE i \in DOMAIN results :
                              /\ results[i].r = "true"
                              /\ \A j \in DOMAIN results :
                                    j > i => results[j].r # "true"
             updatedDocument == Spread(collection[index], updateFields.v)
             dup == UpdateViolation(schema, updateFields, collection, index)
         IN  IF t # 0 /\ (index = 0 \/ t < index)
             THEN Thrown(results[t].err, fs[collectionName])
             ELSE IF index = 0 THEN Returned(Counts(0, 0), fs[collectionName])
             ELSE IF dup # NoMsg THEN Thrown(dup, fs[collectionName])
             ELSE Returned(Counts(1, 1),
                    WriteCollection([collection EXCEPT ![index] = updatedDocument]))

updateOne(collectionName, query, updateFields, schema, fs) ==
    IF ~fs[collectionName].exists
    THEN Returned(Counts(0, 0), fs[collectionName])
    ELSE LET collection == fs[collectionName].docs
             results == MatchResults(collection, query)
             t == FirstThrow(results)
             index == FirstMatch(results)
             updatedDocument == Spread(collection[index], updateFields.v)
             dup == UpdateViolation(schema, updateFields, collection, index)
         IN  IF t # 0 /\ (index = 0 \/ t < index)
             THEN Thrown(results[t].err, fs[collectionName])
             ELSE IF index = 0 THEN Returned(Counts(0, 0), fs[collectionName])
             ELSE IF dup # NoMsg THEN Thrown(dup, fs[collectionName])
             ELSE Returned(Counts(1, 1),
                    WriteCollection([collection EXCEPT ![index] = updatedDocument]))

updateMany(collectionName, query, updateFields, schema, fs) ==
    IF ~fs[collectionName].exists
    THEN Returned(Counts(0, 0), fs[collectionName])
    ELSE LET collection == fs[collectionName].docs
             results == MatchResults(collection, query)
             \* what the callback of collection.map throws at index i
             thrown(i) ==
                 IF results[i].r = "throw" THEN results[i].err
                 ELSE IF results[i].r = "true"
                 THEN UpdateViolation(schema, updateFields, collection, i)
                 ELSE NoMsg
             bad == {i \in DOMAIN collection : thrown(i) # NoMsg}
             firstBad == CHOOSE i \in bad : \A j \in bad : i <= j
             updatedCollection ==
                 [i \in DOMAIN collection |->
                     IF results[i].r = "true"
                     THEN Spread(collection[i], updateFields.v)
                     ELSE collection[i]]
             modifiedCount ==
                 Cardinality({i \in DOMAIN collection : results[i].r = "true"})
         IN  IF bad # {} THEN Thrown(thrown(firstBad), fs[collectionName])
             ELSE Returned(Counts(modifiedCount, modifiedCount),
                           WriteCollection(updatedCollection))

deleteOne(collectionName, query, fs) ==
    IF ~fs[collectionName].exists THEN Returned(Deleted(0), fs[collectionName])
    ELSE LET collection == fs[collectionName].docs
             results == MatchResults(collection, query)
             t == FirstThrow(results)
             kept == Select(collection,
                        {i \in DOMAIN collection : results[i].r # "true"}, 1)
         IN  IF t # 0 THEN Thrown(results[t].err, fs[collectionName])
             ELSE Returned(Deleted(Len(collection) - Len(kept)),
                           WriteCollection(kept))

deleteMany(collectionName, query, fs) ==
    IF ~fs[collectionName].exists THEN Returned(Deleted(0), fs[collectionName])
    ELSE LET collection == fs[collectionName].docs
             results == MatchResults(collection, query)
             t == FirstThrow(results)
             kept == Select(collection,
                        {i \in DOMAIN collection : results[i].r # "true"}, 1)
         IN  IF t # 0 THEN Thrown(results[t].err, fs[collectionName])
             ELSE Returned(Deleted(Len(collection) - Len(kept)),
                           WriteCollection(kept))


(***************************************************************************)
(* src/PyxiCloud.js: frames, events and the dispatcher.                    *)
(* An inbound frame is [kind, type, requestId, data]: kind "garbage" does  *)
(* not parse, "value" parses to something that is no object, "event"       *)
(* parses to an object whose type and requestId are the string given, or   *)
(* UNDEF when missing or not a string.  data is [kind, ...]: kind          *)
(* "undefined", "null" or "object", and then the properties read from it.  *)
(***************************************************************************)
Conns == {"c1", "c2"}
Sockets == Conns \cup {"c3"}
Addresses == {"ip1", "ip2"}
Collections == {"users", "schemas"}

\* req.socket.remoteAddress: c1 and c2 connect from "ip1", which stands for
\* 127.0.0.1, and c3 from "ip2"
clientIP(ws) == IF ws \in Conns THEN "ip1" ELSE "ip2"

\* config.js as shipped
ShippedConfig ==
    [ipWhitelist |-> FALSE, whitelistedIps |-> {"ip1"},
     ipBlacklist |-> FALSE, blacklistedIps |-> {},
     maxConnections |-> 100,
     backupInterval |-> 24 * 60 * 60 * 1000,
     backupRetentionDays |-> 7]

\* checkRateLimit: limit and interval
limit == 100
interval == 60000

\* config.credentials
ConfigUsername == "admin"
ConfigPassword == "admin123"

NoSchema == [kind |-> "undefined", fields |-> <<>>]
NullSchema == [kind |-> "null", fields |-> <<>>]
SchemaObject(fields) == [kind |-> "object", fields |-> fields]

Data(kind) ==
    [kind |-> kind, username |-> UNDEF, password |-> UNDEF,
     collectionName |-> UNDEF, schemaDefinition |-> NoSchema,
     operation |-> UNDEF, document |-> Undefined, documents |-> Undefined,
     query |-> Undefined, updateFields |-> Undefined]

Event(type, requestId, data) ==
    [kind |-> "event", type |-> type, requestId |-> requestId, data |-> data]
Garbage == [kind |-> "garbage", type |-> UNDEF, requestId |-> UNDEF,
            data |-> Data("undefined")]
NotAnObject == [kind |-> "value", type |-> UNDEF, requestId |-> UNDEF,
                data |-> Data("undefined")]

NoData == [kind |-> "none"]

sendSuccess(ws, data, requestId) ==
    [to |-> ws, status |-> "success", requestId |-> requestId,
     message |-> NoMsg, data |-> data]

sendError(ws, message, requestId) ==
    [to |-> ws, status |-> "error", requestId |-> requestId,
     message |-> message, data |-> NoData]

validateEvent(event) ==
    /\ event.kind = "event"
    /\ event.type # UNDEF
    /\ event.requestId # UNDEF
    /\ event.data.kind # "undefined"

\* The store as the dispatcher sees it, and what one call does to it:
\* st is [schemas, schemaFiles, files]; an effect adds the frames sent
\* before the call returns (sent), the continuations it leaves suspended
\* (suspended) and the number of promises it leaves rejected (rejected).
Store(s, sf, f) == [schemas |-> s, schemaFiles |-> sf, files |-> f]

Effect(st, sent, suspended, rejected) ==
    [schemas |-> st.schemas, schemaFiles |-> st.schemaFiles, files |-> st.files,
     sent |-> sent, suspended |-> suspended, rejected |-> rejected]

validateSchemaData(collectionName, schemaDefinition) ==
    /\ collectionName # UNDEF
    /\ collectionName # ""
    /\ schemaDefinition.kind = "object"
    /\ Len(schemaDefinition.fields) > 0

\* Object.keys(null) throws: validateSchemaData reaches it when the name is
\* a non-empty string and the definition is null
validateSchemaDataThrows(collectionName, schemaDefinition) ==
    /\ collectionName # UNDEF
    /\ collectionName # ""
    /\ schemaDefinition.kind = "null"

\* this.schemas.set and fs.writeFileSync of createSchema and updateSchema
SetSchema(st, collectionName, schemaDefinition) ==
    Store([st.schemas EXCEPT ![collectionName] = schemaDefinition],
          [st.schemaFiles EXCEPT ![collectionName] = schemaDefinition],
          st.files)

createSchema(data, ws, requestId, st) ==
    IF data.kind = "null" THEN Effect(st, <<>>, <<>>, 1)
    ELSE IF validateSchemaDataThrows(data.collectionName, data.schemaDefinition)
    THEN Effect(st, <<>>, <<>>, 1)
    ELSE IF ~validateSchemaData(data.collectionName, data.schemaDefinition)
    THEN Effect(st, <<sendError(ws, Msg("Invalid schema data", ""), requestId)>>,
                <<>>, 0)
    ELSE Effect(SetSchema(st, data.collectionName, data.schemaDefinition),
                <<sendSuccess(ws, TextValue("Schema created successfully"),
                              requestId)>>,
                <<>>, 0)

updateSchema(data, ws, requestId, st) ==
    IF data.kind = "null" THEN Effect(st, <<>>, <<>>, 1)
    ELSE IF validateSchemaDataThrows(data.collectionName, data.schemaDefinition)
    THEN Effect(st, <<>>, <<>>, 1)
    ELSE IF ~validateSchemaData(data.collectionName, data.schemaDefinition)
    THEN Effect(st, <<sendError(ws, Msg("Invalid schema data", ""), requestId)>>,
                <<>>, 0)
    ELSE Effect(SetSchema(st, data.collectionName, data.schemaDefinition),
                <<sendSuccess(ws, TextValue("Schema updated successfully"),
                              requestId)>>,
                <<>>, 0)

validOperations ==
    {"insertOne", "insertMany", "find", "findOne", "updateOne", "updateMany",
     "deleteOne", "deleteMany"}

validateQueryData(collectionName, operation) ==
    /\ collectionName # UNDEF
    /\ collectionName # ""
    /\ operation \in validOperations

\* params.query || {}
QueryOrEmpty(query) == IF query.defined THEN query ELSE Defined(<<>>)

\* the switch of handleQuery: the call it awaits
RunOperation(data, schema, fs) ==
    LET collectionName == data.collectionName
    IN  CASE data.operation = "insertOne" ->
                insertOne(collectionName, data.document, schema, fs)
          [] data.operation = "insertMany" ->
                insertMany(collectionName, data.documents, schema, fs)
          [] data.operation = "find" ->
                find(collectionName, QueryOrEmpty(data.query), fs)
          [] data.operation = "findOne" ->
                findOne(collectionName, QueryOrEmpty(data.query), fs)
          [] data.operation = "updateOne" ->
                updateOne(collectionName, data.query, data.updateFields, schema, fs)
          [] data.operation = "updateMany" ->
                updateMany(collectionName, data.query, data.updateFields, schema, fs)
          [] data.operation = "deleteOne" ->
                deleteOne(collectionName, data.query, fs)
          [] OTHER ->
                deleteMany(collectionName, data.query, fs)

\* what handleQuery holds while it is suspended at its await
Continuation(ws, requestId, data, result) ==
    [ws |-> ws, requestId |-> requestId, operation |-> data.operation,
     collectionName |-> data.collectionName,
     ok |-> result.ok, err |-> result.err, value |-> result.value]

\* handleQuery up to its await: the operation has run (its file I/O is
\* synchronous), the response is sent when the continuation resumes
handleQuery(data, ws, requestId, st) ==
    IF ~validateQueryData(data.collectionName, data.operation)
    THEN Effect(st, <<sendError(ws, Msg("Invalid query data", ""), requestId)>>,
                <<>>, 0)
    ELSE IF st.schemas[data.collectionName].kind # "object"
    THEN Effect(st,
                <<sendError(ws, Msg("Schema for collection not found",
                                    data.collectionName), requestId)>>,
                <<>>, 0)
    ELSE LET result == RunOperation(data, st.schemas[data.collectionName].fields,
                                    st.files)
         IN  Effect(Store(st.schemas, st.schemaFiles,
                          [st.files EXCEPT ![data.collectionName] = result.file]),
                    <<>>, <<Continuation(ws, requestId, data, result)>>, 0)

\* console.log('Processing Query request:', event.data.operation) throws on
\* data null, inside the try of handleRequest
handleRequest(event, ws, st) ==
    CASE event.type = "CreateSchema" ->
            createSchema(event.data, ws, event.requestId, st)
      [] event.type = "UpdateSchema" ->
            updateSchema(event.data, ws, event.requestId, st)
      [] event.type = "Query" ->
            IF event.data.kind = "null"
            THEN Effect(st, <<sendError(ws, TypeErrorMsg, event.requestId)>>, <<>>, 0)
            ELSE handleQuery(event.data, ws, event.requestId, st)
      [] OTHER ->
            Effect(st, <<sendError(ws, Msg("Unknown event type", ""),
                                   event.requestId)>>, <<>>, 0)


(***************************************************************************)
(* src/PyxiCloud.js: the connection handlers.                              *)
(***************************************************************************)
\* checkRateLimit that rejects only beyond the limit
checkRateLimitOver(ip, limiter, time) ==
    LET recent(t) == time - t < interval
        recentRequests == SelectSeq(limiter[ip], recent)
    IN  IF Len(recentRequests) > limit
        THEN [ok |-> FALSE, rateLimiter |-> limiter]
        ELSE [ok |-> TRUE,
              rateLimiter |-> [limiter EXCEPT ![ip] = Append(recentRequests, time)]]

\* checkRateLimit that counts every timestamp it holds, however old
checkRateLimitUnsliding(ip, limiter, time) ==
    IF Len(limiter[ip]) >= limit
    THEN [ok |-> FALSE, rateLimiter |-> limiter]
    ELSE [ok |-> TRUE,
          rateLimiter |-> [limiter EXCEPT ![ip] = Append(limiter[ip], time)]]

\* yields [ok, rateLimiter]; an address the map does not hold yet has no
\* accepted timestamps
checkRateLimit(ip, limiter, time) ==
    LET recent(t) == time - t < interval
        recentRequests == SelectSeq(limiter[ip], recent)
    IN  IF Len(recentRequests) >= limit
        THEN [ok |-> FALSE, rateLimiter |-> limiter]
        ELSE [ok |-> TRUE,
              rateLimiter |-> [limiter EXCEPT ![ip] = Append(recentRequests, time)]]

\* handleAuthentication with an error of its own for a wrong username
handleAuthenticationTelling(data, ws, requestId, token) ==
    IF data.kind = "null"
    THEN [threw |-> TRUE, accepted |-> FALSE, sent |-> <<>>]
    ELSE IF data.username \in {UNDEF, ""} \/ data.password \in {UNDEF, ""}
    THEN [threw |-> FALSE, accepted |-> FALSE,
          sent |-> <<sendError(ws, Msg("Missing credentials", ""), requestId)>>]
    ELSE IF data.username # ConfigUsername
    THEN [threw |-> FALSE, accepted |-> FALSE,
          sent |-> <<sendError(ws, Msg("Invalid username", ""), requestId)>>]
    ELSE IF data.password # ConfigPassword
    THEN [threw |-> FALSE, accepted |-> FALSE,
          sent |-> <<sendError(ws, Msg("Invalid credentials", ""), requestId)>>]
    ELSE [threw |-> FALSE, accepted |-> TRUE,
          sent |-> <<sendSuccess(ws, TokenValue(token), requestId)>>]

\* yields [threw, accepted, sent]: token is what generateSessionToken returns
handleAuthentication(data, ws, requestId, token) ==
    IF data.kind = "null"
    THEN [threw |-> TRUE, accepted |-> FALSE, sent |-> <<>>]
    ELSE IF data.username \in {UNDEF, ""} \/ data.password \in {UNDEF, ""}
    THEN [threw |-> FALSE, accepted |-> FALSE,
          sent |-> <<sendError(ws, Msg("Missing credentials", ""), requestId)>>]
    ELSE IF data.username # ConfigUsername \/ data.password # ConfigPassword
    THEN [threw |-> FALSE, accepted |-> FALSE,
          sent |-> <<sendError(ws, Msg("Invalid credentials", ""), requestId)>>]
    ELSE [threw |-> FALSE, accepted |-> TRUE,
          sent |-> <<sendSuccess(ws, TokenValue(token), requestId)>>]

\* the state a handler leaves behind, when it changes nothing and sends nothing
Same ==
    [isAuthenticated |-> isAuthenticated, sessionToken |-> sessionToken,
     sessions |-> sessions, nextToken |-> nextToken,
     schemas |-> schemas, schemaFiles |-> schemaFiles, files |-> files,
     sent |-> <<>>, suspended |-> <<>>, rejected |-> 0]

Answer(frame) == [Same EXCEPT !.sent = <<frame>>]

\* the dispatcher's effect, as the state the handler leaves behind
Dispatched(e) ==
    [Same EXCEPT !.schemas = e.schemas, !.schemaFiles = e.schemaFiles,
                 !.files = e.files, !.sent = e.sent,
                 !.suspended = e.suspended, !.rejected = e.rejected]

\* the 'message' handler without its check of ws.isAuthenticated
OnMessageUngated(ws, message) ==
    IF message.kind = "garbage"
    THEN Answer(sendError(ws, Msg("Invalid message format", ""), UNDEF))
    ELSE IF ~validateEvent(message)
    THEN Answer(sendError(ws, Msg("Invalid event format", ""), UNDEF))
    ELSE IF message.type = "Authenticate"
    THEN LET a == handleAuthentication(message.data, ws, message.requestId,
                                       nextToken + 1)
         IN  IF a.threw
             THEN Answer(sendError(ws, Msg("Invalid message format", ""), UNDEF))
             ELSE IF ~a.accepted THEN [Same EXCEPT !.sent = a.sent]
             ELSE [Same EXCEPT
                     !.sessionToken = [sessionToken EXCEPT ![ws] = nextToken + 1],
                     !.isAuthenticated = [isAuthenticated EXCEPT ![ws] = TRUE],
                     !.sessions = sessions \cup {nextToken + 1},
                     !.nextToken = nextToken + 1,
                     !.sent = a.sent]
    ELSE Dispatched(handleRequest(message, ws, Store(schemas, schemaFiles, files)))

\* the 'message' handler, once checkRateLimit has accepted the message
OnMessage(ws, message) ==
    IF message.kind = "garbage"
    THEN Answer(sendError(ws, Msg("Invalid message format", ""), UNDEF))
    ELSE IF ~validateEvent(message)
    THEN Answer(sendError(ws, Msg("Invalid event format", ""), UNDEF))
    ELSE IF message.type = "Authenticate"
    THEN LET a == handleAuthentication(message.data, ws, message.requestId,
                                       nextToken + 1)
         IN  IF a.threw
             THEN Answer(sendError(ws, Msg("Invalid message format", ""), UNDEF))
             ELSE IF ~a.accepted THEN [Same EXCEPT !.sent = a.sent]
             ELSE [Same EXCEPT
                     !.sessionToken = [sessionToken EXCEPT ![ws] = nextToken + 1],
                     !.isAuthenticated = [isAuthenticated EXCEPT ![ws] = TRUE],
                     !.sessions = sessions \cup {nextToken + 1},
                     !.nextToken = nextToken + 1,
                     !.sent = a.sent]
    ELSE IF ~isAuthenticated[ws]
    THEN Answer(sendError(ws, Msg("Not authenticated", ""), message.requestId))
    ELSE Dispatched(handleRequest(message, ws, Store(schemas, schemaFiles, files)))

\* the 'message' handler that goes on after the rate-limit error
MessageHandlerUnstopped(ws, message) ==
    LET rl == checkRateLimit(clientIP(ws), rateLimiter, now)
        handled == OnMessage(ws, message)
    IN  IF ~rl.ok
        THEN [rateLimiter |-> rl.rateLimiter,
              state |-> [handled EXCEPT !.sent =
                  <<sendError(ws,
                       Msg("Rate limit exceeded. Please try again later.", ""),
                       UNDEF)>>]]
        ELSE [rateLimiter |-> rl.rateLimiter, state |-> handled]

\* the whole 'message' handler: yields the state it leaves behind
MessageHandler(ws, message) ==
    LET rl == checkRateLimit(clientIP(ws), rateLimiter, now)
    IN  IF ~rl.ok
        THEN [rateLimiter |-> rl.rateLimiter,
              state |-> Answer(sendError(ws,
                           Msg("Rate limit exceeded. Please try again later.", ""),
                           UNDEF))]
        ELSE [rateLimiter |-> rl.rateLimiter, state |-> OnMessage(ws, message)]

\* the model follows a step only while its bounds hold afterwards
WithinBounds(r) ==
    /\ LET pending == microtasks \o r.suspended
           isRead(k) == k.operation \in {"find", "findOne"}
           isMutation(k) == ~isRead(k)
       IN  /\ Len(SelectSeq(pending, isMutation)) <= MaxPending
           /\ Len(SelectSeq(pending, isRead)) <= MaxReads
    /\ r.nextToken <= MaxTokens
    /\ \A name \in Collections : Len(r.files[name].docs) <= MaxDocs

\* the assignments a handler's result stands for
Becomes(r) ==
    /\ isAuthenticated' = r.isAuthenticated
    /\ sessionToken' = r.sessionToken
    /\ sessions' = r.sessions
    /\ nextToken' = r.nextToken
    /\ schemas' = r.schemas
    /\ schemaFiles' = r.schemaFiles
    /\ files' = r.files
    /\ microtasks' = microtasks \o r.suspended
    /\ unhandled' = r.rejected
    /\ out' = r.sent

\* Suspended continuations resume before the event loop takes the next
\* event: while some are suspended, the only handler that can start is the
\* 'message' handler of the same connection, for a frame that arrived in
\* the same chunk.
CanHandle(ws) == \A i \in DOMAIN microtasks : microtasks[i].ws = ws

\* checkAccessDenied without its test of the blacklist
checkAccessDeniedAllowing(ip, ws, cfg) ==
    IF cfg.ipWhitelist /\ ip \notin cfg.whitelistedIps
    THEN [denied |-> TRUE,
          sent |-> <<sendError(ws, Msg("Access denied. IP not in whitelist.",
                                       ""), UNDEF)>>]
    ELSE [denied |-> FALSE, sent |-> <<>>]

\* checkAccessDenied: the frame it sends before closing a denied
\* connection, and whether it denied
checkAccessDenied(ip, ws, cfg) ==
    IF cfg.ipWhitelist /\ ip \notin cfg.whitelistedIps
    THEN [denied |-> TRUE,
          sent |-> <<sendError(ws, Msg("Access denied. IP not in whitelist.",
                                       ""), UNDEF)>>]
    ELSE IF cfg.ipBlacklist /\ ip \in cfg.blacklistedIps
    THEN [denied |-> TRUE,
          sent |-> <<sendError(ws, Msg("Access denied. IP in blacklist.", ""),
                               UNDEF)>>]
    ELSE [denied |-> FALSE, sent |-> <<>>]

\* wss.on('connection'), handleConnection: a denied connection is sent the
\* error and closed; any other is added to this.clients, whatever their
\* number, and nothing is sent to it
Connect(ws) ==
    /\ ws \notin clients \cup terminated
    /\ microtasks = <<>>
    /\ LET access == checkAccessDenied(clientIP(ws), ws, config)
       IN  IF access.denied
           THEN /\ out' = access.sent
                /\ UNCHANGED <<clients, isAlive, isAuthenticated, sessionToken>>
           ELSE /\ clients' = clients \cup {ws}
                /\ isAlive' = [isAlive EXCEPT ![ws] = TRUE]
                /\ isAuthenticated' = [isAuthenticated EXCEPT ![ws] = FALSE]
                /\ sessionToken' = [sessionToken EXCEPT ![ws] = 0]
                /\ out' = <<>>
    /\ unhandled' = 0
    /\ UNCHANGED <<sessions, nextToken, rateLimiter, now, schemas, schemaFiles,
                   files, microtasks>>
    /\ UNCHANGED <<asyncVars, libraryVars, config, terminated, silent,
                   backups, exited>>

\* ws.on('message')
Message(ws, message) ==
    /\ ws \in clients
    /\ CanHandle(ws)
    /\ \E r \in {MessageHandler(ws, message)} :
          /\ WithinBounds(r.state)
          /\ rateLimiter' = r.rateLimiter
          /\ Becomes(r.state)
    /\ UNCHANGED <<clients, now>>
    /\ UNCHANGED <<asyncVars, libraryVars, config, isAlive, terminated, silent,
                   backups, exited>>

\* the 'message' handler from "await this.handleRequest(event, ws)" on, for
\* a valid event that is no Authenticate on an authenticated connection
Request(ws, event) ==
    /\ ws \in clients
    /\ CanHandle(ws)
    /\ isAuthenticated[ws]
    /\ validateEvent(event)
    /\ event.type # "Authenticate"
    /\ \E r \in {Dispatched(handleRequest(event, ws,
                                          Store(schemas, schemaFiles, files)))} :
          /\ WithinBounds(r)
          /\ Becomes(r)
    /\ UNCHANGED <<clients, rateLimiter, now>>
    /\ UNCHANGED <<asyncVars, libraryVars, config, isAlive, terminated, silent,
                   backups, exited>>

\* handleQuery resumes after its await and sends the response; a frame for
\* a connection that has closed reaches nobody
RunMicrotask ==
    /\ microtasks # <<>>
    /\ LET k == Head(microtasks)
       IN  out' = IF k.ws \notin clients THEN <<>>
                  ELSE IF k.ok THEN <<sendSuccess(k.ws, k.value, k.requestId)>>
                  ELSE <<sendError(k.ws, k.err, k.requestId)>>
    /\ microtasks' = Tail(microtasks)
    /\ unhandled' = 0
    /\ UNCHANGED <<clients, isAuthenticated, sessionToken, sessions, nextToken,
                   rateLimiter, now, schemas, schemaFiles, files>>
    /\ UNCHANGED <<asyncVars, libraryVars, config, isAlive, terminated, silent,
                   backups, exited>>

\* ws.on('close') and ws.on('error'), of a connection the peer closes or
\* of one the heartbeat has terminated
Close(ws) ==
    /\ ws \in clients \cup terminated
    /\ microtasks = <<>>
    /\ sessions' = IF sessionToken[ws] # 0 THEN sessions \ {sessionToken[ws]}
                   ELSE sessions
    /\ clients' = clients \ {ws}
    /\ terminated' = terminated \ {ws}
    /\ silent' = silent \ {ws}
    /\ out' = <<>>
    /\ unhandled' = 0
    /\ UNCHANGED <<isAuthenticated, sessionToken, nextToken, rateLimiter, now,
                   schemas, schemaFiles, files, microtasks>>
    /\ UNCHANGED <<asyncVars, libraryVars, config, isAlive, backups, exited>>

\* ws.on('pong')
Pong(ws) ==
    /\ ws \in clients
    /\ microtasks = <<>>
    /\ isAlive' = [isAlive EXCEPT ![ws] = TRUE]
    /\ silent' = silent \ {ws}
    /\ out' = <<>>
    /\ unhandled' = 0
    /\ UNCHANGED <<clients, isAuthenticated, sessionToken, sessions, nextToken,
                   rateLimiter, now, schemas, schemaFiles, files, microtasks>>
    /\ UNCHANGED <<asyncVars, libraryVars, config, terminated, backups, exited>>

\* the heartbeat that never marks a connection as awaiting its pong
HeartbeatUnmarked ==
    /\ microtasks = <<>>
    /\ clients' = {ws \in clients : isAlive[ws]}
    /\ terminated' = terminated \cup {ws \in clients : ~isAlive[ws]}
    /\ isAlive' = isAlive
    /\ silent' = clients'
    /\ out' = <<>>
    /\ unhandled' = 0
    /\ UNCHANGED <<isAuthenticated, sessionToken, sessions, nextToken,
                   rateLimiter, now, schemas, schemaFiles, files, microtasks>>
    /\ UNCHANGED <<asyncVars, libraryVars, config, backups, exited>>

\* startHeartbeat: one tick of its timer.  A connection whose isAlive is
\* false is deleted from this.clients and terminated; any other has its
\* isAlive set to false and is pinged
Heartbeat ==
    /\ microtasks = <<>>
    /\ clients' = {ws \in clients : isAlive[ws]}
    /\ terminated' = terminated \cup {ws \in clients : ~isAlive[ws]}
    /\ isAlive' = [ws \in Sockets |-> IF ws \in clients' THEN FALSE
                                      ELSE isAlive[ws]]
    /\ silent' = clients'
    /\ out' = <<>>
    /\ unhandled' = 0
    /\ UNCHANGED <<isAuthenticated, sessionToken, sessions, nextToken,
                   rateLimiter, now, schemas, schemaFiles, files, microtasks>>
    /\ UNCHANGED <<asyncVars, libraryVars, config, backups, exited>>

\* Date.now() advances between two events, by half the limiter's interval
Tick ==
    /\ now < MaxTicks * (interval \div 2)
    /\ now' = now + interval \div 2
    /\ out' = <<>>
    /\ unhandled' = 0
    /\ UNCHANGED <<clients, isAuthenticated, sessionToken, sessions, nextToken,
                   rateLimiter, schemas, schemaFiles, files, microtasks>>
    /\ UNCHANGED <<asyncVars, libraryVars, config, isAlive, terminated, silent,
                   backups, exited>>


(***************************************************************************)
(* src/unnamed/part_000: the server variant whose operations await their   *)
(* file I/O.  A request in flight is a task: pc is the await it is         *)
(* suspended at.                                                           *)
(*   "access1", "create1"  ensureCollectionExists called by handleQuery    *)
(*   "access2", "create2"  ensureCollectionExists called by the operation  *)
(*   "read"                fs.promises.readFile                            *)
(*   "write"               fs.promises.writeFile of the new collection     *)
(*   "respond"             the operation has settled, handleQuery resumes  *)
(***************************************************************************)
Tasks == {"t1", "t2"}

NumberValue(n) == [kind |-> "number", n |-> n]

Idle ==
    [pc |-> "idle", ws |-> "c1", requestId |-> UNDEF, operation |-> UNDEF,
     collectionName |-> UNDEF, document |-> Undefined, query |-> Undefined,
     updateFields |-> Undefined, documents |-> <<>>,
     ok |-> TRUE, err |-> NoMsg, value |-> [kind |-> "none"]]

asyncOperations == {"insert", "find", "update", "delete", "count"}
asyncMutations == {"insert", "update", "delete"}

\* fileName.replace(/[^a-z0-9]/gi, '_').toLowerCase(), for the names of the
\* model
sanitizeFileName(fileName) ==
    IF fileName = "Users" THEN "users" ELSE fileName

\* validateQueryData of part_000
asyncValidateQueryData(collectionName, operation) ==
    /\ collectionName # UNDEF
    /\ collectionName # ""
    /\ operation \in asyncOperations

\* JSON.stringify(obj1) === JSON.stringify(obj2)
isEqual(obj1, obj2) == JSONObject(obj1) = JSONObject(obj2)

\* matchQuery of part_000: every entry of the query is a value to equal
RECURSIVE asyncMatchEntries(_, _)
asyncMatchEntries(doc, entries) ==
    IF entries = <<>> THEN TRUE
    ELSE /\ StrictEq(Get(doc, Head(entries)[1]), Head(entries)[2])
         /\ asyncMatchEntries(doc, Tail(entries))

\* yields [ok, err, value, documents, write]: the operation from the moment
\* readFile resolves to its next await (write) or to its end
insertDocument(document, data) ==
    IF ~document.defined
    THEN [ok |-> FALSE, err |-> TypeErrorMsg, value |-> [kind |-> "none"],
          documents |-> data, write |-> FALSE]
    ELSE LET stripped == Delete(Delete(document.v, "_id"), "createdAt")
             isDuplicate == \E i \in DOMAIN data : isEqual(data[i], stripped)
         IN  IF isDuplicate
             THEN [ok |-> FALSE, err |-> Msg("Duplicate document", ""),
                   value |-> [kind |-> "none"], documents |-> data, write |-> FALSE]
             ELSE [ok |-> TRUE, err |-> NoMsg, value |-> DocValue(stripped),
                   documents |-> Append(data, stripped), write |-> TRUE]

\* Object.entries(query) throws on a query left out, at the first document
asyncQueryThrows(query, data) == ~query.defined /\ data # <<>>

updateDocuments(query, updateFields, data) ==
    IF asyncQueryThrows(query, data)
    THEN [ok |-> FALSE, err |-> TypeErrorMsg, value |-> [kind |-> "none"],
          documents |-> data, write |-> FALSE]
    ELSE LET hit == {i \in DOMAIN data : asyncMatchEntries(data[i], query.v)}
         IN  [ok |-> TRUE, err |-> NoMsg, value |-> NumberValue(Cardinality(hit)),
              documents |-> [i \in DOMAIN data |->
                                IF i \in hit THEN Spread(data[i], updateFields.v)
                                ELSE data[i]],
              write |-> TRUE]

deleteDocuments(query, data) ==
    IF asyncQueryThrows(query, data)
    THEN [ok |-> FALSE, err |-> TypeErrorMsg, value |-> [kind |-> "none"],
          documents |-> data, write |-> FALSE]
    ELSE LET kept == Select(data,
                        {i \in DOMAIN data : ~asyncMatchEntries(data[i], query.v)}, 1)
         IN  [ok |-> TRUE, err |-> NoMsg,
              value |-> NumberValue(Len(data) - Len(kept)),
              documents |-> kept, write |-> TRUE]

findDocuments(query, data) ==
    LET q == QueryOrEmpty(query)
    IN  [ok |-> TRUE, err |-> NoMsg,
         value |-> DocsValue(Select(data,
                      {i \in DOMAIN data : asyncMatchEntries(data[i], q.v)}, 1)),
         documents |-> data, write |-> FALSE]

countDocuments(query, data) ==
    LET q == QueryOrEmpty(query)
    IN  [ok |-> TRUE, err |-> NoMsg,
         value |-> NumberValue(Cardinality(
                      {i \in DOMAIN data : asyncMatchEntries(data[i], q.v)})),
         documents |-> data, write |-> FALSE]

\* the operation of task k on the collection it has just read
AfterRead(k, data) ==
    CASE k.operation = "insert" -> insertDocument(k.document, data)
      [] k.operation = "update" -> updateDocuments(k.query, k.updateFields, data)
      [] k.operation = "delete" -> deleteDocuments(k.query, data)
      [] k.operation = "find" -> findDocuments(k.query, data)
      [] OTHER -> countDocuments(k.query, data)

\* handleQuery of part_000 up to its first await
AsyncQuery(t, ws, requestId, data) ==
    /\ aTasks[t].pc = "idle"
    /\ IF ~asyncValidateQueryData(data.collectionName, data.operation)
       THEN /\ aOut' = <<sendError(ws, Msg("Invalid query data", ""), requestId)>>
            /\ UNCHANGED aTasks
       ELSE /\ aOut' = <<>>
            /\ aTasks' = [aTasks EXCEPT ![t] =
                  [Idle EXCEPT !.pc = "access1", !.ws = ws,
                               !.requestId = requestId,
                               !.operation = data.operation,
                               !.collectionName = data.collectionName,
                               !.document = data.document, !.query = data.query,
                               !.updateFields = data.updateFields]]
    /\ UNCHANGED aFiles
    /\ UNCHANGED <<serverVars, libraryVars>>

\* ensureCollectionExists: fs.promises.access settles
AsyncAccess(t) ==
    LET k == aTasks[t]
        first == k.pc = "access1"
        \* count calls no ensureCollectionExists of its own
        after1 == IF k.operation = "count" THEN "read" ELSE "access2"
    IN  /\ k.pc \in {"access1", "access2"}
        /\ aTasks' = [aTasks EXCEPT ![t].pc =
              IF aFiles[sanitizeFileName(k.collectionName)].exists
              THEN (IF first THEN after1 ELSE "read")
              ELSE (IF first THEN "create1" ELSE "create2")]
        /\ aOut' = <<>>
        /\ UNCHANGED aFiles
        /\ UNCHANGED <<serverVars, libraryVars>>

\* ensureCollectionExists: fs.promises.writeFile(collectionPath, '[]') settles
AsyncCreate(t) ==
    LET k == aTasks[t]
    IN  /\ k.pc \in {"create1", "create2"}
        /\ aFiles' = [aFiles EXCEPT
                          ![sanitizeFileName(k.collectionName)] = File(<<>>)]
        /\ aTasks' = [aTasks EXCEPT ![t].pc =
              IF k.pc = "create2" \/ k.operation = "count" THEN "read"
              ELSE "access2"]
        /\ aOut' = <<>>
        /\ UNCHANGED <<serverVars, libraryVars>>

\* fs.promises.readFile settles and the operation runs to its next await
AsyncRead(t) ==
    LET k == aTasks[t]
        r == AfterRead(k, aFiles[sanitizeFileName(k.collectionName)].docs)
    IN  /\ k.pc = "read"
        /\ Len(r.documents) <= MaxDocs
        /\ aTasks' = [aTasks EXCEPT ![t] =
              [k EXCEPT !.pc = IF r.write THEN "write" ELSE "respond",
                        !.documents = r.documents,
                        !.ok = r.ok, !.err = r.err, !.value = r.value]]
        /\ aOut' = <<>>
        /\ UNCHANGED aFiles
        /\ UNCHANGED <<serverVars, libraryVars>>

\* fs.promises.writeFile(collectionPath, JSON.stringify(documents)) settles
AsyncWrite(t) ==
    LET k == aTasks[t]
    IN  /\ k.pc = "write"
        /\ aFiles' = [aFiles EXCEPT ![sanitizeFileName(k.collectionName)] =
                          WriteCollection(k.documents)]
        /\ aTasks' = [aTasks EXCEPT ![t].pc = "respond"]
        /\ aOut' = <<>>
        /\ UNCHANGED <<serverVars, libraryVars>>

\* handleQuery resumes: sendSuccess(ws, result, requestId) or the catch
AsyncRespond(t) ==
    LET k == aTasks[t]
    IN  /\ k.pc = "respond"
        /\ aOut' = <<IF k.ok THEN sendSuccess(k.ws, k.value, k.requestId)
                     ELSE sendError(k.ws, k.err, k.requestId)>>
        /\ aTasks' = [aTasks EXCEPT ![t] = Idle]
        /\ UNCHANGED aFiles
        /\ UNCHANGED <<serverVars, libraryVars>>


(***************************************************************************)
(* The requests the model sends.                                           *)
(***************************************************************************)
\* users: email is required and unique, age defaults to 1
UsersSchema ==
    <<Field("email", TRUE, TRUE, FALSE, UNDEF),
      Field("age", FALSE, FALSE, TRUE, "n1")>>

Doc1(k, v) == <<<<k, v>>>>
Doc2(k1, v1, k2, v2) == <<<<k1, v1>>, <<k2, v2>>>>

\* the request ids a connection uses
RequestIdOf(ws) == IF ws = "c1" THEN "r1" ELSE "r2"

AuthData(username, password) ==
    [Data("object") EXCEPT !.username = username, !.password = password]
SchemaData(collectionName, schemaDefinition) ==
    [Data("object") EXCEPT !.collectionName = collectionName,
                           !.schemaDefinition = schemaDefinition]
QueryData(collectionName, operation) ==
    [Data("object") EXCEPT !.collectionName = collectionName,
                           !.operation = operation]

InsertOneData(document) ==
    [QueryData("users", "insertOne") EXCEPT !.document = Defined(document)]
InsertManyData(documents) ==
    [QueryData("users", "insertMany") EXCEPT !.documents = Defined(documents)]
ReadData(operation, query) ==
    [QueryData("users", operation) EXCEPT !.query = query]
UpdateData(operation, query, updateFields) ==
    [QueryData("users", operation) EXCEPT !.query = query,
                                          !.updateFields = updateFields]

InsertDocs == {Doc1("email", "sa"), Doc1("email", "sb"), Doc1("age", "n2")}

Batches ==
    {<<Doc1("email", "sa"), Doc1("email", "sb")>>,
     <<Doc1("email", "sc"), Doc1("email", "sc")>>,
     <<Doc1("email", "sb"), Doc1("age", "n2")>>,
     <<Doc1("email", "sc"), Doc1("email", "sa")>>}

Queries ==
    {Defined(<<<<"email", Scalar("sa")>>>>),
     Defined(<<<<"age", Scalar("n1")>>>>),
     Defined(<<<<"age", Operators(<<<<"$regex", Operand("sa")>>>>)>>>>)}

UpdateFieldSets ==
    {Defined(Doc1("email", "sc")), Defined(Doc1("email", "sb")),
     Defined(Doc1("age", "n2"))}

\* the payloads of the store requests
StoreData ==
    {SchemaData("users", SchemaObject(UsersSchema))}
    \cup {InsertOneData(d) : d \in InsertDocs}
    \cup {InsertManyData(b) : b \in Batches}
    \cup {ReadData(op, q) : op \in {"deleteOne", "deleteMany"}, q \in Queries}
    \cup {UpdateData(op, q, u) : op \in {"updateOne", "updateMany"},
                                 q \in Queries, u \in UpdateFieldSets}

StoreTypeOf(data) ==
    IF data.operation = UNDEF THEN "CreateSchema" ELSE "Query"

\* c1 sends every store request, c2 the inserts of single documents
StoreEvents(ws) ==
    {Event(StoreTypeOf(d), RequestIdOf(ws), d) :
        d \in IF ws = "c1" THEN StoreData
              ELSE {InsertOneData(doc) : doc \in InsertDocs}}

(***************************************************************************)
(* src/Database/schema.js: Schema.validateDocument.                        *)
(* Schemas and documents are JavaScript values [t, s, fields, items]: the  *)
(* type tag t ("undefined", "null", "string", "number", "boolean",         *)
(* "object", "array"), the text s of a primitive, the <<key, value>>       *)
(* entries of an object in key order, the items of an array.               *)
(***************************************************************************)
JsValue(t, s, fields, items) == [t |-> t, s |-> s, fields |-> fields, items |-> items]

\* v[key] for a key that is no index: undefined unless v is an object that
\* has the key
Prop(v, key) ==
    IF v.t = "object" /\ \E i \in DOMAIN v.fields : v.fields[i][1] = key
    THEN v.fields[CHOOSE i \in DOMAIN v.fields : v.fields[i][1] = key][2]
    ELSE JsValue("undefined", "", <<>>, <<>>)

\* yields [ok, text, path]: true returned, or the error thrown and the
\* segments of the field name it carries
RECURSIVE validateDocument(_, _, _)
validateDocument(document, schema, prefix) ==
    LET Ok == [ok |-> TRUE, text |-> "", path |-> <<>>]
        Err(text, path) == [ok |-> FALSE, text |-> text, path |-> path]
        typeof(v) == IF v.t \in {"object", "array", "null"} THEN "object" ELSE v.t
        truthy(v) == ~ \/ v.t \in {"undefined", "null"}
                       \/ v.t = "boolean" /\ v.s = "false"
                       \/ v.t = "number" /\ v.s = "0"
                       \/ v.t = "string" /\ v.s = ""
        RECURSIVE forEach(_, _, _, _)
        forEach(value, items, fullFieldName, index) ==
            IF index > Len(value) THEN Ok
            ELSE LET r == validateDocument(value[index], items,
                             fullFieldName \o <<(<<"[0]", "[1]", "[2]">>)[index]>>)
                 IN  IF r.ok THEN forEach(value, items, fullFieldName, index + 1)
                     ELSE r
        RECURSIVE forIn(_)
        forIn(i) ==
            IF i > Len(schema.fields) THEN Ok
            ELSE LET field == schema.fields[i][1]
                     fieldDefinition == schema.fields[i][2]
                     value == Prop(document, field)
                     fullFieldName == prefix \o <<field>>
                     type == Prop(fieldDefinition, "type")
                     properties == Prop(fieldDefinition, "properties")
                     items == Prop(fieldDefinition, "items")
                     r == IF value.t \notin {"undefined", "null"}
                          THEN IF type.t = "string" /\ type.s = "object"
                                  /\ truthy(properties)
                               THEN IF typeof(value) # "object"
                                    THEN Err("should be an object", fullFieldName)
                                    ELSE validateDocument(value, properties,
                                                          fullFieldName)
                               ELSE IF type.t = "string" /\ type.s = "array"
                                       /\ truthy(items)
                               THEN IF value.t # "array"
                                    THEN Err("should be an array", fullFieldName)
                                    ELSE forEach(value.items, items,
                                                 fullFieldName, 1)
                               \* no value of the model is a Date
                               ELSE IF type.t = "string" /\ type.s = "date"
                               THEN Err("should be a valid Date", fullFieldName)
                               ELSE IF type.t # "string" \/ typeof(value) # type.s
                               THEN Err("should be of type", fullFieldName)
                               ELSE Ok
                          ELSE IF truthy(Prop(fieldDefinition, "required"))
                          THEN Err("is required", fullFieldName)
                          ELSE Ok
                 IN  IF r.ok THEN forIn(i + 1) ELSE r
    IN  \* document[field] of null or undefined is a TypeError
        IF document.t \in {"undefined", "null"} /\ Len(schema.fields) > 0
        THEN Err("TypeError", prefix)
        ELSE forIn(1)

\* no document has been handed to validateDocument
NoValidation ==
    /\ mSchema = JsValue("undefined", "", <<>>, <<>>)
    /\ mDocument = JsValue("undefined", "", <<>>, <<>>)
    /\ mValid = [ok |-> FALSE, text |-> "not called", path |-> <<>>]
    /\ mData = <<>>
    /\ mCache = <<>>

\* schema.validateDocument(document)
ValidateDocument ==
    /\ mValid.text = "not called"
    /\ mSchema.t = "object"
    /\ mValid' = validateDocument(mDocument, mSchema, <<>>)
    /\ UNCHANGED <<mSchema, mDocument>>
    /\ UNCHANGED <<serverVars, asyncVars, mData, mCache>>

(***************************************************************************)
(* The state after construction, and the specifications.                   *)
(***************************************************************************)
InitAsync ==
    /\ aFiles = [name \in Collections |-> NoFile]
    /\ aTasks = [t \in Tasks |-> Idle]
    /\ aOut = <<>>

\* no heartbeat tick yet, no snapshot yet
InitTimers ==
    /\ isAlive = [ws \in Sockets |-> ws \in clients]
    /\ terminated = {}
    /\ silent = {}
    /\ backups = {}
    /\ exited = FALSE

InitStoreEmpty ==
    /\ schemas = [name \in Collections |-> NoSchema]
    /\ schemaFiles = [name \in Collections |-> NoSchema]
    /\ files = [name \in Collections |-> NoFile]
    /\ microtasks = <<>>
    /\ unhandled = 0
    /\ out = <<>>
    /\ now = 0
    /\ InitTimers

\* the server after construction
InitServer ==
    /\ clients = {}
    /\ isAuthenticated = [ws \in Sockets |-> FALSE]
    /\ sessionToken = [ws \in Sockets |-> 0]
    /\ sessions = {}
    /\ nextToken = 0
    /\ rateLimiter = [ip \in Addresses |-> <<>>]
    /\ InitStoreEmpty

Init ==
    /\ InitServer
    /\ InitAsync
    /\ NoValidation
    /\ config = ShippedConfig

\* the server once c1 and then c2 have connected and authenticated, with
\* nothing stored yet
InitStore ==
    /\ clients = Conns
    /\ isAuthenticated = [ws \in Sockets |-> ws \in Conns]
    /\ sessionToken = [ws \in Sockets |->
                          IF ws = "c1" THEN 1 ELSE IF ws = "c2" THEN 2 ELSE 0]
    /\ sessions = {1, 2}
    /\ nextToken = 2
    /\ rateLimiter = [ip \in Addresses |->
                         IF ip = "ip1" THEN <<0, 0>> ELSE <<>>]
    /\ InitStoreEmpty
    /\ InitAsync
    /\ NoValidation
    /\ config = ShippedConfig

NextStore ==
    \/ \E ws \in Conns : \E event \in StoreEvents(ws) : Request(ws, event)
    \/ RunMicrotask

SpecStore == InitStore /\ [][NextStore]_vars


\* the frames of the protocol specification
ProtocolConns == {"c1"}

ProtocolFrames(ws) ==
    {Garbage,
     Event("Ping", UNDEF, Data("object")),
     Event(UNDEF, RequestIdOf(ws), Data("object")),
     Event("Authenticate", RequestIdOf(ws), AuthData(ConfigUsername, ConfigPassword)),
     Event("Authenticate", RequestIdOf(ws), AuthData(ConfigUsername, "wrong")),
     Event("Authenticate", RequestIdOf(ws), AuthData("wrong", ConfigPassword)),
     Event("Authenticate", RequestIdOf(ws), Data("null")),
     Event("CreateSchema", RequestIdOf(ws),
           SchemaData("users", SchemaObject(UsersSchema))),
     Event("UpdateSchema", RequestIdOf(ws), Data("null")),
     Event("Query", RequestIdOf(ws), InsertOneData(Doc1("email", "sa"))),
     Event("Query", RequestIdOf(ws), Data("null")),
     Event("Ping", RequestIdOf(ws), Data("object"))}

Next ==
    \/ \E ws \in ProtocolConns : Connect(ws)
    \/ \E ws \in ProtocolConns : \E message \in ProtocolFrames(ws) :
          Message(ws, message)
    \/ RunMicrotask
    \/ \E ws \in ProtocolConns : Close(ws)

Spec == Init /\ [][Next]_vars

\* the rate limiter: c1 and c2 have connected from one address and c3 from
\* another, none has sent a message yet, and the clock advances; c1
\* authenticates until it has succeeded, c2 and c3 send frames that do not
\* parse
InitLimit ==
    /\ clients = Sockets
    /\ isAuthenticated = [ws \in Sockets |-> FALSE]
    /\ sessionToken = [ws \in Sockets |-> 0]
    /\ sessions = {}
    /\ nextToken = 0
    /\ rateLimiter = [ip \in Addresses |-> <<>>]
    /\ InitStoreEmpty
    /\ InitAsync
    /\ NoValidation
    /\ config = ShippedConfig

LimitFrames(ws) ==
    IF ws = "c1"
    THEN {Event("Authenticate", RequestIdOf(ws),
                AuthData(ConfigUsername, ConfigPassword))}
    ELSE {Garbage}

NextLimit ==
    \/ /\ ~isAuthenticated["c1"]
       /\ \E message \in LimitFrames("c1") : Message("c1", message)
    \/ \E message \in LimitFrames("c2") : Message("c2", message)
    \/ /\ Len(rateLimiter[clientIP("c3")]) < MaxOther
       /\ \E message \in LimitFrames("c3") : Message("c3", message)
    \/ Tick

SpecLimit == InitLimit /\ [][NextLimit]_vars

\* nested documents: a value that is an object is named by its JSON text,
\* and PropertyOf is value[key]
Address(city) == IF city = "sa" THEN "{city:sa}" ELSE "{city:sb}"

PropertyOf(value, key) ==
    IF key = "city" /\ value = "{city:sa}" THEN "sa"
    ELSE IF key = "city" /\ value = "{city:sb}" THEN "sb"
    ELSE UNDEF

\* key.split('.')
split(key) == IF key = "address.city" THEN <<"address", "city">> ELSE <<key>>

AddressSchema ==
    <<Field("email", TRUE, TRUE, FALSE, UNDEF),
      ObjectField("address", <<Field("city", FALSE, TRUE, FALSE, UNDEF)>>)>>

NestedData ==
    {InsertOneData(Doc2("email", e, "address", Address(c))) :
        e \in {"sa", "sb"}, c \in {"sa", "sb"}}
    \cup {UpdateData("updateOne", Defined(<<<<"email", Scalar("sa")>>>>),
                     Defined(Doc1("address.city", "sb")))}
    \cup {ReadData("find", Defined(<<<<"address.city", Scalar("sa")>>>>)),
          ReadData("find", Defined(<<<<"address.city",
                       Operators(<<<<"$ne", Operand("sa")>>>>)>>>>))}

NestedEvents(ws) == {Event("Query", RequestIdOf(ws), d) : d \in NestedData}

\* the server of InitStore once CreateSchema has registered AddressSchema
InitNested ==
    /\ clients = Conns
    /\ isAuthenticated = [ws \in Sockets |-> ws \in Conns]
    /\ sessionToken = [ws \in Sockets |->
                          IF ws = "c1" THEN 1 ELSE IF ws = "c2" THEN 2 ELSE 0]
    /\ sessions = {1, 2}
    /\ nextToken = 2
    /\ rateLimiter = [ip \in Addresses |->
                         IF ip = "ip1" THEN <<0, 0>> ELSE <<>>]
    /\ config = ShippedConfig
    /\ schemas = [name \in Collections |-> SchemaObject(AddressSchema)]
    /\ schemaFiles = [name \in Collections |-> SchemaObject(AddressSchema)]
    /\ files = [name \in Collections |-> NoFile]
    /\ microtasks = <<>>
    /\ unhandled = 0
    /\ out = <<>>
    /\ now = 0
    /\ InitTimers
    /\ InitAsync
    /\ NoValidation

NextNested ==
    \/ \E event \in NestedEvents("c1") :
          microtasks = <<>> /\ Request("c1", event)
    \/ RunMicrotask

SpecNested == InitNested /\ [][NextNested]_vars

\* the access lists and the connection limit: config.js with either list
\* enabled or not, the whitelist of the shipped file, a blacklist of no or
\* one address, and a limit of one connection or of the shipped hundred
AccessConfigs ==
    {[ShippedConfig EXCEPT !.ipWhitelist = w, !.ipBlacklist = b,
                           !.blacklistedIps = l, !.maxConnections = n] :
        w \in BOOLEAN, b \in BOOLEAN, l \in {{}, {"ip1"}, {"ip2"}},
        n \in {1, ShippedConfig.maxConnections}}

InitAccess ==
    /\ InitServer
    /\ InitAsync
    /\ NoValidation
    /\ config \in AccessConfigs

AccessFrames(ws) ==
    {Garbage,
     Event("Authenticate", RequestIdOf(ws),
           AuthData(ConfigUsername, ConfigPassword))}

NextAccess ==
    \/ \E ws \in Sockets : Connect(ws)
    \/ \E ws \in Sockets : \E message \in AccessFrames(ws) :
          /\ Len(rateLimiter[clientIP(ws)]) < MaxMessages
          /\ Message(ws, message)
    \/ \E ws \in Sockets : Close(ws)

SpecAccess == InitAccess /\ [][NextAccess]_vars

\* the heartbeat: c1 and c2 connect, authenticate, answer a ping or not,
\* and close, while the heartbeat's timer ticks
HeartbeatFrames(ws) ==
    {Event("Authenticate", RequestIdOf(ws),
           AuthData(ConfigUsername, ConfigPassword))}

NextHeartbeat ==
    \/ \E ws \in Conns : Connect(ws)
    \/ \E ws \in Conns :
          /\ ~isAuthenticated[ws]
          /\ \E message \in HeartbeatFrames(ws) : Message(ws, message)
    \/ \E ws \in Conns : Pong(ws)
    \/ Heartbeat
    \/ \E ws \in Conns : Close(ws)

SpecHeartbeat == Init /\ [][NextHeartbeat]_vars

\* the backup process.  A snapshot is the folder backup_<timestamp>: its
\* mtime, whether schemas.json was copied into it, and the collection
\* files copied into it
MaxBackups == 9

Snapshot(mtime, copied, collections) ==
    [mtime |-> mtime, schemas |-> copied, collections |-> collections]

\* createBackup: the folder is made first; copying schemas.json throws
\* when the schema directory has no file of that name, which is the schema
\* file of a collection named "schemas"
createBackup(time, st) ==
    IF st.schemaFiles["schemas"] = NoSchema
    THEN [threw |-> TRUE, snapshot |-> Snapshot(time, FALSE, {})]
    ELSE [threw |-> FALSE,
          snapshot |-> Snapshot(time, TRUE,
                                {name \in Collections : st.files[name].exists})]

\* cleanupOldBackups: diffDays > config.backupRetentionDays
cleanupOldBackups(time, folders, cfg) ==
    {b \in folders :
        ~(time - b.mtime > cfg.backupRetentionDays * (1000 * 3600 * 24))}

\* startBackupProcess: one tick of its timer, createBackup and then
\* cleanupOldBackups; an exception of createBackup is caught by nobody and
\* ends the process
BackupTick ==
    /\ ~exited
    /\ microtasks = <<>>
    /\ now < MaxBackups * config.backupInterval
    /\ now' = now + config.backupInterval
    /\ LET made == createBackup(now', Store(schemas, schemaFiles, files))
       IN  IF made.threw
           THEN /\ backups' = backups \cup {made.snapshot}
                /\ exited' = TRUE
           ELSE /\ backups' = cleanupOldBackups(now',
                                                backups \cup {made.snapshot},
                                                config)
                /\ exited' = FALSE
    /\ out' = <<>>
    /\ unhandled' = 0
    /\ UNCHANGED <<clients, isAuthenticated, sessionToken, sessions, nextToken,
                   rateLimiter, schemas, schemaFiles, files, microtasks>>
    /\ UNCHANGED <<asyncVars, libraryVars, config, isAlive, terminated, silent>>

\* the folders that runs of the server before this one may have left: one
\* from eight days and one from a day before this run started
EarlierBackups ==
    {Snapshot(0 - 8 * ShippedConfig.backupInterval, FALSE, {}),
     Snapshot(0 - ShippedConfig.backupInterval, FALSE, {})}

InitBackup ==
    /\ clients = Conns
    /\ isAuthenticated = [ws \in Sockets |-> ws \in Conns]
    /\ sessionToken = [ws \in Sockets |->
                          IF ws = "c1" THEN 1 ELSE IF ws = "c2" THEN 2 ELSE 0]
    /\ sessions = {1, 2}
    /\ nextToken = 2
    /\ rateLimiter = [ip \in Addresses |->
                         IF ip = "ip1" THEN <<0, 0>> ELSE <<>>]
    /\ config = ShippedConfig
    /\ schemas = [name \in Collections |-> NoSchema]
    /\ schemaFiles = [name \in Collections |-> NoSchema]
    /\ files = [name \in Collections |-> NoFile]
    /\ microtasks = <<>>
    /\ unhandled = 0
    /\ out = <<>>
    /\ now = 0
    /\ isAlive = [ws \in Sockets |-> ws \in clients]
    /\ terminated = {}
    /\ silent = {}
    /\ backups \in SUBSET EarlierBackups
    /\ exited = FALSE
    /\ InitAsync
    /\ NoValidation

BackupEvents(ws) ==
    {Event("CreateSchema", RequestIdOf(ws),
           SchemaData(name, SchemaObject(UsersSchema))) : name \in Collections}
    \cup {Event("Query", RequestIdOf(ws), InsertOneData(Doc1("email", "sa")))}

NextBackup ==
    \/ /\ ~exited
       /\ \E event \in BackupEvents("c1") : Request("c1", event)
    \/ /\ ~exited
       /\ RunMicrotask
    \/ BackupTick

SpecBackup == InitBackup /\ [][NextBackup]_vars


\* the requests of the variant that awaits its file I/O: the connection a
\* task serves, and the payloads
AsyncConnOf(t) == IF t = "t1" THEN "c1" ELSE "c2"

AsyncDocs ==
    {Doc2("name", "sa", "createdAt", "n1"), Doc2("name", "sa", "createdAt", "n2"),
     Doc1("name", "sb")}

AsyncData ==
    {[QueryData("users", "insert") EXCEPT !.document = Defined(d)] : d \in AsyncDocs}
    \cup {[QueryData("users", "update") EXCEPT
              !.query = Defined(Doc1("name", "sa")),
              !.updateFields = Defined(Doc1("name", "sc"))],
          [QueryData("users", "delete") EXCEPT !.query = Defined(Doc1("name", "sb"))],
          QueryData("users", "find"),
          QueryData("users", "count"),
          QueryData("users", "drop")}

NextAsync ==
    \/ \E t \in Tasks : \E data \in AsyncData :
          AsyncQuery(t, AsyncConnOf(t), RequestIdOf(AsyncConnOf(t)), data)
    \/ \E t \in Tasks : AsyncAccess(t)
    \/ \E t \in Tasks : AsyncCreate(t)
    \/ \E t \in Tasks : AsyncRead(t)
    \/ \E t \in Tasks : AsyncWrite(t)
    \/ \E t \in Tasks : AsyncRespond(t)

SpecAsync == Init /\ [][NextAsync]_vars

\* requests of the variant on two collection names that differ in letter
\* case
AsyncNames == {"users", "Users"}

NamesData ==
    {[QueryData(name, "insert") EXCEPT !.document = Defined(Doc1("name", v))] :
        name \in AsyncNames, v \in {"sa", "sb"}}
    \cup {[QueryData(name, "delete") EXCEPT !.query = Defined(Doc1("name", "sa"))] :
             name \in AsyncNames}
    \cup {QueryData(name, "find") : name \in AsyncNames}

NextNames ==
    \/ \E data \in NamesData :
          AsyncQuery("t1", AsyncConnOf("t1"), RequestIdOf(AsyncConnOf("t1")), data)
    \/ AsyncAccess("t1")
    \/ AsyncCreate("t1")
    \/ AsyncRead("t1")
    \/ AsyncWrite("t1")
    \/ AsyncRespond("t1")

SpecNames == Init /\ [][NextNames]_vars


(***************************************************************************)
(* Properties of the collection operations, under SpecStore.               *)
(***************************************************************************)
\* the names of the fields a schema marks unique
UniqueFields(schema) ==
    {schema[i].name : i \in {j \in DOMAIN schema : schema[j].unique}}

\* the unique fields in which document holds a value some document of docs holds
Colliding(schema, document, docs) ==
    {f \in UniqueFields(schema) :
        /\ Get(document, f) # UNDEF
        /\ \E i \in DOMAIN docs : Get(docs[i], f) = Get(document, f)}

\* no two documents of docs share a defined value in a unique field
NoSharedUnique(schema, docs) ==
    \A i, j \in DOMAIN docs :
        i # j => \A f \in UniqueFields(schema) :
                    \/ Get(docs[i], f) = UNDEF
                    \/ Get(docs[i], f) # Get(docs[j], f)

\* the requests of ws for operation, and whether the collection an event
\* names has a schema, so that handleQuery runs the operation
EventsOf(ws, operation) ==
    {e \in StoreEvents(ws) : e.data.operation = operation}

\* the continuation the step has just suspended
Suspended == microtasks'[Len(microtasks')]

\* the step has run an operation of operations: handleQuery is suspended
\* at its await of it
StepOf(operations) ==
    /\ Len(microtasks') = Len(microtasks) + 1
    /\ Suspended.operation \in operations

\* the step is the handler of event on ws
Runs(ws, event) ==
    /\ Suspended.ws = ws
    /\ Suspended.operation = event.data.operation
    /\ Request(ws, event)

\* C5: an insertOne whose document holds, in a field the schema marks
\* unique, a value that a document of the persisted collection holds in that
\* field fails with the duplicate-value error naming such a field and leaves
\* the collections as they were; and an insertOne never makes two documents
\* of the collection share a defined value in a unique field.
C5_InsertOneUnique ==
    [][StepOf({"insertOne"}) =>
       \A ws \in Conns : \A e \in EventsOf(ws, "insertOne") :
          Runs(ws, e) =>
             LET name == e.data.collectionName
                 schema == schemas[name].fields
                 hit == Colliding(schema, e.data.document.v, files[name].docs)
             IN  /\ hit # {} =>
                       /\ ~Suspended.ok
                       /\ \E f \in hit : Suspended.err = DuplicateMsg(f)
                       /\ files' = files
                 /\ NoSharedUnique(schema, files[name].docs) =>
                       NoSharedUnique(schema, files'[name].docs)]_vars

\* an insertOne has just failed on a value the collection holds
C5_Witness ==
    /\ microtasks # <<>>
    /\ LET k == microtasks[Len(microtasks)]
       IN  /\ k.operation = "insertOne"
           /\ k.err = DuplicateMsg("email")
    /\ \E i \in DOMAIN files["users"].docs :
          Get(files["users"].docs[i], "email") = "sa"

\* C3: insertOne requests of different connections on one collection, each
\* with a value of the unique field that no document holds, all succeed:
\* each appends exactly its validated document to the collection as the
\* earlier inserts left it, so that none is lost or stored twice.
C3_InsertsAllStored ==
    [][StepOf({"insertOne"}) =>
       \A ws \in Conns : \A e \in EventsOf(ws, "insertOne") :
          Runs(ws, e) =>
             LET name == e.data.collectionName
                 schema == schemas[name].fields
                 docs == files[name].docs
                 v == validateAndApplyDefaults(e.data.document.v, schema)
             IN  (v.ok /\ Colliding(schema, v.doc, docs) = {}) =>
                    /\ Suspended.ws = ws
                    /\ Suspended.requestId = e.requestId
                    /\ Suspended.ok
                    /\ Suspended.value = DocValue(v.doc)
                    /\ files'[name] = File(Append(docs, v.doc))]_vars

\* c2 is told that its insert succeeded, and the collection holds its
\* document after the one stored before it
C3_Witness ==
    /\ Len(files["users"].docs) = 2
    /\ Get(files["users"].docs[1], "email") # Get(files["users"].docs[2], "email")
    /\ out = <<sendSuccess("c2", DocValue(files["users"].docs[2]), "r2")>>

\* two documents of a batch share a defined value in a unique field
BatchCollides(schema, batch) ==
    \E i, j \in DOMAIN batch :
        /\ i # j
        /\ \E f \in UniqueFields(schema) :
              /\ Get(batch[i], f) # UNDEF
              /\ Get(batch[i], f) = Get(batch[j], f)

\* C7: an insertMany whose batch holds two documents with the same value in
\* a unique field fails with the duplicate-value error, also when no
\* persisted document holds that value.
C7_BatchDuplicateFails ==
    [][StepOf({"insertMany"}) =>
       \A ws \in Conns : \A e \in EventsOf(ws, "insertMany") :
          Runs(ws, e) =>
             LET schema == schemas[e.data.collectionName].fields
             IN  BatchCollides(schema, e.data.documents.v) =>
                    /\ ~Suspended.ok
                    /\ \E f \in UniqueFields(schema) :
                          Suspended.err = DuplicateMsg(f)]_vars

\* C8: insertMany is all-or-nothing.  If a document of the batch fails
\* validation or collides with a persisted document in a unique field the
\* call fails; a call that fails leaves the collections as they were; a call
\* that succeeds has appended every validated document, in batch order.
C8_InsertManyAllOrNothing ==
    [][StepOf({"insertMany"}) =>
       \A ws \in Conns : \A e \in EventsOf(ws, "insertMany") :
          Runs(ws, e) =>
             LET name == e.data.collectionName
                 schema == schemas[name].fields
                 docs == files[name].docs
                 vs == ValidateAll(e.data.documents.v, schema)
                 validated == [i \in DOMAIN vs |-> vs[i].doc]
                 rejected == \E i \in DOMAIN vs :
                                \/ ~vs[i].ok
                                \/ Colliding(schema, vs[i].doc, docs) # {}
             IN  /\ rejected => ~Suspended.ok
                 /\ ~Suspended.ok => files' = files
                 /\ Suspended.ok =>
                       /\ files'[name] = File(docs \o validated)
                       /\ Suspended.value = DocsValue(validated)]_vars

\* an insertMany has failed on a document that follows a valid one, and the
\* valid one ('b') is not in the collection
C8_Witness ==
    /\ microtasks # <<>>
    /\ LET k == microtasks[Len(microtasks)]
       IN  /\ k.operation = "insertMany"
           /\ k.err = RequiredMsg("email")
    /\ files["users"].exists
    /\ \A i \in DOMAIN files["users"].docs :
          Get(files["users"].docs[i], "email") # "sb"

\* collection without its document at index m
Without(collection, m) == Select(collection, DOMAIN collection \ {m}, 1)

\* C9: deleteOne removes the first document that matches the query and no
\* other, and returns a deletedCount of 1, or of 0 when nothing matches.
C9_DeleteOneRemovesOne ==
    [][StepOf({"deleteOne"}) =>
       \A ws \in Conns : \A e \in EventsOf(ws, "deleteOne") :
          (Runs(ws, e) /\ Suspended.ok) =>
             LET name == e.data.collectionName
                 docs == files[name].docs
                 m == FirstMatch(MatchResults(docs, e.data.query))
             IN  IF m = 0
                 THEN /\ files'[name].docs = docs
                      /\ Suspended.value = Deleted(0)
                 ELSE /\ files'[name].docs = Without(docs, m)
                      /\ Suspended.value = Deleted(1)]_vars

\* C10: updateOne and updateMany never make two documents of the collection
\* share a defined value in a unique field.
C10_UpdatesKeepUnique ==
    [][StepOf({"updateOne", "updateMany"}) =>
       \A ws \in Conns : \A op \in {"updateOne", "updateMany"} :
          \A e \in EventsOf(ws, op) :
             Runs(ws, e) =>
                LET name == e.data.collectionName
                    schema == schemas[name].fields
                IN  NoSharedUnique(schema, files[name].docs) =>
                       NoSharedUnique(schema, files'[name].docs)]_vars

(***************************************************************************)
(* Properties of the variant that awaits its file I/O, under SpecAsync.    *)
(***************************************************************************)
\* C4: two mutations on one collection never interleave their
\* read-modify-write cycles: while one is between its read of the collection
\* and its rewrite, no other has read the collection and is to rewrite it.
C4_MutationsExclusive ==
    \A t, u \in Tasks :
        (/\ t # u
         /\ aTasks[t].pc = "write"
         /\ aTasks[u].pc = "write")
        => aTasks[t].collectionName # aTasks[u].collectionName

\* the documents have the same fields and differ in the value of exactly one
DifferInOneField(d1, d2) ==
    /\ Keys(d1) = Keys(d2)
    /\ Cardinality({k \in Keys(d1) : Get(d1, k) # Get(d2, k)}) = 1

\* C6: of two inserts whose documents differ only in the value of one field
\* that is not unique (createdAt here), neither fails: when one has
\* succeeded, the other is not rejected.
C6_BothInserted ==
    \A t, u \in Tasks :
        (/\ t # u
         /\ aTasks[t].pc = "respond" /\ aTasks[t].operation = "insert"
         /\ aTasks[u].pc = "respond" /\ aTasks[u].operation = "insert"
         /\ DifferInOneField(aTasks[t].document.v, aTasks[u].document.v)
         /\ aTasks[t].ok)
        => aTasks[u].ok

(***************************************************************************)
(* Properties of the connection handlers, under Spec.                      *)
(***************************************************************************)
\* the valid events among the frames of ws whose type is not Authenticate
RequestFrames(ws) ==
    {m \in ProtocolFrames(ws) : validateEvent(m) /\ m.type # "Authenticate"}

ValidFrames(ws) == {m \in ProtocolFrames(ws) : validateEvent(m)}

\* the step answers 'Not authenticated' with the request's id and leaves the
\* schemas, the collections, the sessions and the connection's flags alone
RejectedUnchanged(ws, m) ==
    /\ out' = <<sendError(ws, Msg("Not authenticated", ""), m.requestId)>>
    /\ microtasks' = microtasks
    /\ UNCHANGED <<schemas, schemaFiles, files, sessions, isAuthenticated,
                   sessionToken>>

\* C1, as claimed: on a connection that is not authenticated every valid
\* request that is no Authenticate is answered 'Not authenticated' with its
\* requestId and changes nothing.
C1_Original ==
    [][\A ws \in ProtocolConns : \A m \in RequestFrames(ws) :
          (~isAuthenticated[ws] /\ Message(ws, m)) =>
             RejectedUnchanged(ws, m)]_vars

\* C1, amended: the same for every such request that the rate limiter
\* accepts.
C1_NotAuthenticated ==
    [][\A ws \in ProtocolConns : \A m \in RequestFrames(ws) :
          (/\ ~isAuthenticated[ws]
           /\ checkRateLimit(clientIP(ws), rateLimiter, now).ok
           /\ Message(ws, m)) =>
             RejectedUnchanged(ws, m)]_vars

\* a request has just been refused on a connection that is not
\* authenticated, while the server holds a schema and a session-less client
C1_Witness ==
    /\ "c1" \in clients
    /\ ~isAuthenticated["c1"]
    /\ schemas["users"].kind = "object"
    /\ out = <<sendError("c1", Msg("Not authenticated", ""), "r1")>>

\* C2: every valid event causes exactly one response on its connection, and
\* the response carries the event's requestId: the handler either sends that
\* one frame before it returns, or sends nothing yet and leaves exactly one
\* continuation that will send it.
C2_OneCorrelatedResponse ==
    [][\A ws \in ProtocolConns : \A m \in ValidFrames(ws) :
          Message(ws, m) =>
             \/ /\ microtasks' = microtasks
                /\ Len(out') = 1
                /\ out'[1].to = ws
                /\ out'[1].requestId = m.requestId
             \/ /\ out' = <<>>
                /\ Len(microtasks') = Len(microtasks) + 1
                /\ Suspended.ws = ws
                /\ Suspended.requestId = m.requestId]_vars

\* the response to the Authenticate of ws that has just succeeded
Authenticated(ws) ==
    /\ isAuthenticated[ws]
    /\ out = <<sendSuccess(ws, TokenValue(sessionToken[ws]), RequestIdOf(ws))>>

\* the step answers the request with one frame that carries its requestId
\* and is no 'Not authenticated', or suspends the one continuation that will
AnsweredByHandler(ws, m) ==
    \/ /\ microtasks' = microtasks
       /\ Len(out') = 1
       /\ out'[1].to = ws
       /\ out'[1].requestId = m.requestId
       /\ out'[1].message # Msg("Not authenticated", "")
    \/ /\ out' = <<>>
       /\ Len(microtasks') = Len(microtasks) + 1
       /\ Suspended.ws = ws
       /\ Suspended.requestId = m.requestId

\* C15: a valid request (one that 'Not authenticated' refused before, as it
\* refuses every request of a connection that is not authenticated) sent
\* right after a successful Authenticate, and accepted by the rate limiter,
\* is dispatched and answered with its handler's result; and no request on
\* an authenticated connection is answered 'Not authenticated'.
C15_ResentRequestAnswered ==
    [][\A ws \in ProtocolConns : \A m \in RequestFrames(ws) :
          /\ (/\ Authenticated(ws)
              /\ checkRateLimit(clientIP(ws), rateLimiter, now).ok
              /\ Message(ws, m)) => AnsweredByHandler(ws, m)
          /\ (isAuthenticated[ws] /\ Message(ws, m)) =>
                \A i \in DOMAIN out' :
                   out'[i].message # Msg("Not authenticated", "")]_vars

\* the Authenticate events whose data does not hold the configured
\* credentials: a wrong password, no data object at all
FailingAuthentications(ws) ==
    {m \in ValidFrames(ws) :
        /\ m.type = "Authenticate"
        /\ \/ m.data.kind = "null"
           \/ m.data.username # ConfigUsername
           \/ m.data.password # ConfigPassword}

\* C16: an Authenticate with missing or wrong credentials (that the rate
\* limiter accepts) creates no session, leaves the connection's
\* isAuthenticated and sessionToken as they were, and is answered with one
\* error response that carries the requestId.
C16_FailedAuthenticate ==
    [][\A ws \in ProtocolConns : \A m \in FailingAuthentications(ws) :
          (/\ checkRateLimit(clientIP(ws), rateLimiter, now).ok
           /\ Message(ws, m)) =>
             /\ UNCHANGED <<sessions, isAuthenticated, sessionToken>>
             /\ microtasks' = microtasks
             /\ Len(out') = 1
             /\ out'[1].to = ws
             /\ out'[1].status = "error"
             /\ out'[1].requestId = m.requestId]_vars

\* C17: the session map holds only tokens of connections that are open, and
\* for each connection at most the one token it holds: once a connection has
\* closed, no token issued on it is left, however often it authenticated.
C17_SessionsOfOpenConnections ==
    \A token \in sessions :
       \E ws \in clients : isAuthenticated[ws] /\ sessionToken[ws] = token


(***************************************************************************)
(* The requests of the query specification: c1 alone, on a collection      *)
(* whose schema is registered.                                             *)
(***************************************************************************)
\* 'score' is no field of the schema: only the third document has it
QueryDocs ==
    {Doc1("email", "sa"),
     Doc2("email", "sb", "age", "n2"),
     Doc2("email", "sc", "score", "n2")}

Cond(operator, value) == Operators(<<<<operator, Operand(value)>>>>)

\* queries whose operators are all supported and well-formed
PlainQueries ==
    {<<<<"age", Cond("$gte", "n2")>>>>,
     <<<<"score", Cond("$lte", "n2")>>>>,
     <<<<"score", Cond("$eq", "n2")>>>>,
     <<<<"age", Cond("$lt", "n2")>>>>,
     <<<<"email", Scalar("sb")>>>>,
     <<<<"email", Scalar("sc")>>>>,
     <<<<"age", Operators(<<<<"$in", ArrayOperand(<<"n1", "n2">>)>>>>)>>>>,
     <<<<"age", Operators(<<<<"$gt", Operand("n1")>>, <<"$ne", Operand("n3")>>>>)>>,
       <<"email", Operators(<<<<"$nin", ArrayOperand(<<"sa">>)>>>>)>>>>}

\* queries with an operator that matchOperators does not know: alone, after
\* a key that is a plain value, after another operator, before another key
UnsupportedQueries ==
    {<<<<"age", Cond("$regex", "sa")>>>>,
     <<<<"email", Scalar("sa")>>, <<"age", Cond("$regex", "sa")>>>>,
     <<<<"age", Operators(<<<<"$gt", Operand("n1")>>, <<"$regex", Operand("sa")>>>>)>>>>,
     <<<<"age", Cond("$regex", "sa")>>, <<"email", Scalar("sa")>>>>}

\* $in and $nin with an operand that is no array
NonArrayQueries ==
    {<<<<"age", Cond("$in", "n1")>>>>,
     <<<<"age", Cond("$nin", "n2")>>>>}

QuerySpecData ==
    {InsertOneData(d) : d \in QueryDocs}
    \cup {ReadData(op, Defined(q)) : op \in {"find", "findOne"},
             q \in PlainQueries \cup UnsupportedQueries \cup NonArrayQueries}
    \cup {ReadData(op, Defined(q)) : op \in {"deleteOne", "deleteMany"},
                                     q \in UnsupportedQueries}
    \cup {UpdateData(op, Defined(q), Defined(Doc1("age", "n3"))) :
             op \in {"updateOne", "updateMany"}, q \in UnsupportedQueries}
    \cup {ReadData("deleteMany", Defined(<<<<"email", Scalar("sb")>>>>))}
    \* an update that gives 'age', which the schema declares a number, a string
    \cup {UpdateData("updateOne", Defined(<<<<"email", Scalar("sb")>>>>),
                      Defined(Doc1("age", "sa")))}

QueryEvents(ws) == {Event("Query", RequestIdOf(ws), d) : d \in QuerySpecData}

\* the server of InitStore once CreateSchema has registered UsersSchema
InitQuery ==
    /\ clients = Conns
    /\ isAuthenticated = [ws \in Sockets |-> ws \in Conns]
    /\ sessionToken = [ws \in Sockets |->
                          IF ws = "c1" THEN 1 ELSE IF ws = "c2" THEN 2 ELSE 0]
    /\ sessions = {1, 2}
    /\ nextToken = 2
    /\ rateLimiter = [ip \in Addresses |->
                         IF ip = "ip1" THEN <<0, 0>> ELSE <<>>]
    /\ config = ShippedConfig
    /\ schemas = [name \in Collections |-> SchemaObject(UsersSchema)]
    /\ schemaFiles = [name \in Collections |-> SchemaObject(UsersSchema)]
    /\ files = [name \in Collections |-> NoFile]
    /\ microtasks = <<>>
    /\ unhandled = 0
    /\ out = <<>>
    /\ now = 0
    /\ InitTimers
    /\ InitAsync
    /\ NoValidation

\* the requests the client sends without awaiting the response to the one
\* before: a findOne by email
FollowUps(ws) ==
    {e \in QueryEvents(ws) :
        /\ e.data.operation = "findOne"
        /\ \E v \in StrVals : e.data.query.v = <<<<"email", Scalar(v)>>>>}

NextQuery ==
    \/ \E event \in QueryEvents("c1") :
          microtasks = <<>> /\ Request("c1", event)
    \/ \E event \in FollowUps("c1") :
          microtasks # <<>> /\ Request("c1", event)
    \/ RunMicrotask

SpecQuery == InitQuery /\ [][NextQuery]_vars

(***************************************************************************)
(* Claims about the queries, under SpecQuery.                              *)
(***************************************************************************)
\* the requests of c1 that run one of operations with a query of queries
QueryEventsOf(operations, queries) ==
    {e \in QueryEvents("c1") :
        /\ e.data.operation \in operations
        /\ e.data.query.defined
        /\ e.data.query.v \in queries}

Filtering ==
    {"find", "findOne", "updateOne", "updateMany", "deleteOne", "deleteMany"}

\* C11: a find, findOne, update or delete whose query holds an operator key
\* other than the eight supported ones fails with the unsupported-operator
\* error and leaves the collection as it was, whatever the collection holds
\* and wherever the key stands in the query.
C11_UnsupportedOperatorFails ==
    [][StepOf(Filtering) =>
       \A e \in QueryEventsOf(Filtering, UnsupportedQueries) :
          Runs("c1", e) =>
             /\ ~Suspended.ok
             /\ Suspended.err = Msg("Unsupported operator", "$regex")
             /\ files' = files]_vars

\* C12: a find or findOne whose query gives $in or $nin an operand that is
\* no array fails with an error: the operand is never evaluated as 'the
\* document does not match', so the request never succeeds with an empty or
\* partial result.  (Stated for a collection that holds documents, where
\* the operand is evaluated.)
C12_NonArrayOperandFails ==
    [][StepOf({"find", "findOne"}) =>
       \A e \in QueryEventsOf({"find", "findOne"}, NonArrayQueries) :
          (Runs("c1", e) /\ files[e.data.collectionName].docs # <<>>) =>
             ~Suspended.ok]_vars

\* a stands before b in the order of the numbers or of the strings
Before(a, b) ==
    \E order \in {<<"n1", "n2", "n3">>, <<"sa", "sb", "sc">>} :
       \E i, j \in 1..3 : i < j /\ order[i] = a /\ order[j] = b

\* the value v of a document's field (UNDEF: the document lacks the field)
\* meets the condition 'operator: operand'
Meets(operator, operand, v) ==
    CASE operator = "$eq" -> v = operand.value
      [] operator = "$ne" -> v # operand.value
      [] operator = "$gt" -> Before(operand.value, v)
      [] operator = "$gte" -> v = operand.value \/ Before(operand.value, v)
      [] operator = "$lt" -> Before(v, operand.value)
      [] operator = "$lte" -> v = operand.value \/ Before(v, operand.value)
      [] operator = "$in" -> \E i \in DOMAIN operand.items : operand.items[i] = v
      [] operator = "$nin" -> \A i \in DOMAIN operand.items : operand.items[i] # v

\* the document satisfies every key of the filter
Satisfies(doc, query) ==
    \A i \in DOMAIN query :
       LET v == Get(doc, query[i][1])
           cond == query[i][2]
       IN  IF cond.isObject
           THEN \A j \in DOMAIN cond.operators :
                   Meets(cond.operators[j][1], cond.operators[j][2], v)
           ELSE v = cond.value

\* C13: for a non-empty query of supported operators, find returns exactly
\* the documents of the persisted collection that satisfy every key of the
\* filter, in insertion order (a document lacking the field satisfies none
\* of $gt, $gte, $lt, $lte, $eq), and findOne returns the first such
\* document or null; neither changes the collection.
C13_FindReturnsSatisfying ==
    [][StepOf({"find", "findOne"}) =>
       \A e \in QueryEventsOf({"find", "findOne"}, PlainQueries) :
          Runs("c1", e) =>
             LET docs == files[e.data.collectionName].docs
                 satisfies(d) == Satisfies(d, e.data.query.v)
                 hits == SelectSeq(docs, satisfies)
             IN  /\ Suspended.ok
                 /\ files' = files
                 /\ e.data.operation = "find" => Suspended.value = DocsValue(hits)
                 /\ e.data.operation = "findOne" =>
                       Suspended.value = IF hits = <<>> THEN NullValue
                                         ELSE DocValue(Head(hits))]_vars

\* a find has returned the second of two stored documents and not the first
C13_Witness ==
    /\ microtasks # <<>>
    /\ Head(microtasks).operation = "find"
    /\ Head(microtasks).ok
    /\ Len(files["users"].docs) = 2
    /\ Head(microtasks).value = DocsValue(<<files["users"].docs[2]>>)

\* the query selects by one field value, which the document has and at
\* most one document of docs has
Discriminates(query, doc, docs) ==
    /\ Len(query) = 1
    /\ ~query[1][2].isObject
    /\ Get(doc, query[1][1]) = query[1][2].value
    /\ \A i, j \in DOMAIN docs :
          (/\ Get(docs[i], query[1][1]) = query[1][2].value
           /\ Get(docs[j], query[1][1]) = query[1][2].value) => i = j

\* C14: a findOne that follows a successful insertOne and selects the
\* inserted document by a field value no other document has returns a
\* document equal, field for field, to the defaulted and validated document
\* that insertOne returned, which is the one the collection stores.
C14_FindOneAfterInsertOne ==
    [][StepOf({"findOne"}) =>
       \A e \in QueryEventsOf({"findOne"}, PlainQueries) :
          (/\ Runs("c1", e)
           /\ Len(microtasks) = 1
           /\ microtasks[1].operation = "insertOne"
           /\ microtasks[1].collectionName = e.data.collectionName
           /\ microtasks[1].ok
           /\ Discriminates(e.data.query.v, microtasks[1].value.doc,
                            files[e.data.collectionName].docs)) =>
             /\ Suspended.ok
             /\ Suspended.value = microtasks[1].value
             /\ \E i \in DOMAIN files[e.data.collectionName].docs :
                   files[e.data.collectionName].docs[i] = Suspended.value.doc]_vars

\* a findOne has returned, right after the insertOne that stored it, a
\* document whose field 'age' the schema's default filled in
C14_Witness ==
    /\ Len(microtasks) = 2
    /\ microtasks[1].operation = "insertOne"
    /\ microtasks[1].ok
    /\ microtasks[2].operation = "findOne"
    /\ microtasks[2].ok
    /\ microtasks[2].value = microtasks[1].value
    /\ microtasks[2].value.doc = <<<<"email", "sc">>, <<"score", "n2">>, <<"age", "n1">>>>
    /\ Len(files["users"].docs) = 2

(***************************************************************************)
(* The requests of the schema specification: both clients create and       *)
(* update the schema of users, c1 inserts under whatever schema there is.  *)
(***************************************************************************)
\* a second definition for users: email alone, neither required nor unique
OpenSchema == <<Field("email", FALSE, FALSE, FALSE, UNDEF)>>

SchemaEvents(ws) ==
    {Event(type, RequestIdOf(ws), SchemaData("users", SchemaObject(fields))) :
        type \in {"CreateSchema", "UpdateSchema"},
        fields \in {UsersSchema, OpenSchema}}
    \cup (IF ws = "c1"
          THEN {Event("Query", RequestIdOf(ws), InsertOneData(d)) :
                   d \in {Doc1("email", "sa"), Doc1("age", "n2")}}
          ELSE {})

NextSchema ==
    \/ \E ws \in Conns : \E event \in SchemaEvents(ws) : Request(ws, event)
    \/ RunMicrotask

SpecSchema == InitStore /\ [][NextSchema]_vars

(***************************************************************************)
(* Claims about the schema registry, under SpecSchema.                     *)
(***************************************************************************)
SchemaEventsOf(ws, type) == {m \in SchemaEvents(ws) : m.type = type}

\* the step answers the request with one error frame and leaves the
\* registry and the schema files as they were
RefusedSchema(ws, m) ==
    /\ Len(out') = 1
    /\ out'[1].to = ws
    /\ out'[1].status = "error"
    /\ out'[1].requestId = m.requestId
    /\ UNCHANGED <<schemas, schemaFiles>>

\* C18: a CreateSchema for a name that has a registered schema fails (the
\* schema already exists) and leaves the registered schema as it was, so
\* that of all CreateSchema requests for one name at most one succeeds.
C18_CreateSchemaOnce ==
    [][\A ws \in Conns : \A m \in SchemaEventsOf(ws, "CreateSchema") :
          (/\ schemas[m.data.collectionName] # NoSchema
           /\ Request(ws, m)) => RefusedSchema(ws, m)]_vars

\* C19: an UpdateSchema for a name without a registered schema fails (not
\* found) and registers nothing; for a registered name it succeeds and
\* replaces the whole stored definition by the new one.
C19_UpdateSchemaOfRegistered ==
    [][\A ws \in Conns : \A m \in SchemaEventsOf(ws, "UpdateSchema") :
          Request(ws, m) =>
             IF schemas[m.data.collectionName] = NoSchema
             THEN RefusedSchema(ws, m)
             ELSE /\ schemas'[m.data.collectionName] = m.data.schemaDefinition
                  /\ schemaFiles'[m.data.collectionName] = m.data.schemaDefinition
                  /\ out' = <<sendSuccess(ws,
                                 TextValue("Schema updated successfully"),
                                 m.requestId)>>]_vars

(***************************************************************************)
(* The schemas and documents handed to validateDocument.                   *)
(***************************************************************************)
ValidateSchemas ==
    LET str(x) == JsValue("string", x, <<>>, <<>>)
        yes == JsValue("boolean", "true", <<>>, <<>>)
        obj(fields) == JsValue("object", "", fields, <<>>)
        idRequired == obj(<<<<"type", str("number")>>, <<"required", yes>>>>)
    IN  {\* primitive fields
         obj(<<<<"name", obj(<<<<"type", str("string")>>, <<"required", yes>>>>)>>,
               <<"age", obj(<<<<"type", str("number")>>>>)>>>>),
         \* an object field with properties
         obj(<<<<"profile",
                 obj(<<<<"type", str("object")>>,
                       <<"properties",
                         obj(<<<<"city", obj(<<<<"type", str("string")>>,
                                               <<"required", yes>>>>)>>>>)>>>>)>>>>),
         \* array fields: primitive items, no items definition
         obj(<<<<"tags", obj(<<<<"type", str("array")>>,
                               <<"items", obj(<<<<"type", str("string")>>>>)>>>>)>>>>),
         obj(<<<<"tags", obj(<<<<"type", str("array")>>>>)>>>>),
         \* array fields with object items, one of them with a field 'type'
         obj(<<<<"orders",
                 obj(<<<<"type", str("array")>>,
                       <<"items",
                         obj(<<<<"type", str("object")>>,
                               <<"properties", obj(<<<<"id", idRequired>>>>)>>>>)>>>>)>>>>),
         obj(<<<<"orders",
                 obj(<<<<"type", str("array")>>,
                       <<"items",
                         obj(<<<<"type", str("object")>>,
                               <<"properties",
                                 obj(<<<<"id", idRequired>>,
                                       <<"type", obj(<<<<"type", str("string")>>>>)>>>>)>>>>)>>>>)>>>>)}

\* a document takes, for each field, one of the listed forms or lacks it
ValidateDocuments ==
    LET str(x) == JsValue("string", x, <<>>, <<>>)
        num(x) == JsValue("number", x, <<>>, <<>>)
        obj(fields) == JsValue("object", "", fields, <<>>)
        arr(items) == JsValue("array", "", <<>>, items)
        forms(field, values) == {<<>>} \cup {<<<<field, v>>>> : v \in values}
    IN  {obj(name \o profile \o tags \o orders) :
            name \in forms("name", {str("a"), num("1")}),
            profile \in forms("profile",
                         {obj(<<<<"city", str("a")>>>>), obj(<<>>), str("a")}),
            tags \in forms("tags", {arr(<<>>), arr(<<str("a"), str("b")>>),
                                    arr(<<num("1")>>)}),
            orders \in forms("orders",
                        {arr(<<obj(<<<<"id", num("1")>>>>)>>),
                         arr(<<obj(<<>>)>>),
                         arr(<<obj(<<<<"id", num("1")>>, <<"type", str("a")>>>>)>>),
                         arr(<<obj(<<<<"id", num("1")>>>>),
                               obj(<<<<"id", str("a")>>>>)>>)})}

InitValidate ==
    /\ InitServer
    /\ InitAsync
    /\ mSchema \in ValidateSchemas
    /\ mDocument \in ValidateDocuments
    /\ mValid = [ok |-> FALSE, text |-> "not called", path |-> <<>>]
    /\ mData = <<>>
    /\ mCache = <<>>
    /\ config = ShippedConfig

SpecValidate == InitValidate /\ [][ValidateDocument]_vars

(***************************************************************************)
(* src/Database/model.js: the Model of one collection.  mData is the       *)
(* collection file and mCache is this.cache, a Map from the document's key *)
(* to the document, kept in the order in which the keys were set.  A       *)
(* document has a number n and a string tag and neither _id nor createdAt, *)
(* so that its key is its content.                                         *)
(***************************************************************************)
cacheSize == 100

MaxStored == 101

MaxTagged == 2

Document(n, tag) == [n |-> n, tag |-> tag]

\* data.slice(-count)
slice(data, count) ==
    IF Len(data) <= count THEN data
    ELSE SubSeq(data, Len(data) - count + 1, Len(data))

_getDocumentKey(document) == document

\* this.cache.set(key, doc): a key that is there keeps its place
cacheSet(cache, document) ==
    IF \E i \in DOMAIN cache :
          _getDocumentKey(cache[i]) = _getDocumentKey(document)
    THEN [i \in DOMAIN cache |->
             IF _getDocumentKey(cache[i]) = _getDocumentKey(document)
             THEN document ELSE cache[i]]
    ELSE Append(cache, document)

\* docs.forEach(doc => this.cache.set(key(doc), doc)) on an empty cache:
\* the keys in the order of their first documents, each with the last
\* document of that key
cacheSetAll(docs) ==
    LET indices == [i \in DOMAIN docs |-> i]
        sameKey(i, j) == _getDocumentKey(docs[i]) = _getDocumentKey(docs[j])
        isFirst(i) == \A j \in 1..(i - 1) : ~sameKey(i, j)
        isLast(i) == \A j \in (i + 1)..Len(docs) : ~sameKey(i, j)
        firsts == SelectSeq(indices, isFirst)
    IN  [k \in DOMAIN firsts |->
            docs[CHOOSE j \in DOMAIN docs : sameKey(firsts[k], j) /\ isLast(j)]]

\* _writeData: the cache after this.cache.clear() and the seeding
_writeData(data) == cacheSetAll(slice(data, cacheSize))

_isUnique(document, cache, data) ==
    /\ ~\E i \in DOMAIN cache :
           _getDocumentKey(cache[i]) = _getDocumentKey(document)
    /\ ~\E i \in DOMAIN data :
           _getDocumentKey(data[i]) = _getDocumentKey(document)

_matchQuery(doc, query) ==
    \A i \in DOMAIN query : query[i][1] = "tag" => doc.tag = query[i][2]

RECURSIVE _updateDocument(_, _)
_updateDocument(doc, updateFields) ==
    IF updateFields = <<>> THEN doc
    ELSE _updateDocument(IF Head(updateFields)[1] = "tag"
                         THEN [doc EXCEPT !.tag = Head(updateFields)[2]]
                         ELSE doc,
                         Tail(updateFields))

\* new Model(collectionName) on the file of an earlier Model
ModelConstruct ==
    /\ mCache' = cacheSetAll(slice(mData, cacheSize))
    /\ UNCHANGED <<mData, mSchema, mDocument, mValid>>
    /\ UNCHANGED <<serverVars, asyncVars>>

\* insert(document), for a document the schema accepts
ModelInsert(document) ==
    /\ Len(mData) < MaxStored
    /\ IF ~_isUnique(document, mCache, mData)
       THEN UNCHANGED <<mData, mCache>>
       ELSE LET data == Append(mData, document)
                seeded == _writeData(data)
                evicted == IF Len(seeded) >= cacheSize THEN Tail(seeded)
                           ELSE seeded
            IN  /\ mData' = data
                /\ mCache' = cacheSet(evicted, document)
    /\ UNCHANGED <<mSchema, mDocument, mValid>>
    /\ UNCHANGED <<serverVars, asyncVars>>

\* update(query, updateFields)
ModelUpdate(query, updateFields) ==
    /\ LET updatedData ==
               [i \in DOMAIN mData |->
                   IF _matchQuery(mData[i], query)
                   THEN _updateDocument(mData[i], updateFields)
                   ELSE mData[i]]
       IN  /\ mData' = updatedData
           /\ mCache' = _writeData(updatedData)
    /\ UNCHANGED <<mSchema, mDocument, mValid>>
    /\ UNCHANGED <<serverVars, asyncVars>>

\* delete(query)
ModelDelete(query) ==
    /\ LET keeps(doc) == ~_matchQuery(doc, query)
           filteredData == SelectSeq(mData, keeps)
       IN  /\ mData' = filteredData
           /\ mCache' = _writeData(filteredData)
    /\ UNCHANGED <<mSchema, mDocument, mValid>>
    /\ UNCHANGED <<serverVars, asyncVars>>

\* find(query) and count(query)
ModelFind(query) ==
    IF query = <<>> THEN mCache
    ELSE LET matches(doc) == _matchQuery(doc, query)
         IN  SelectSeq(mData, matches)

ModelCount(query) == Len(ModelFind(query))

\* the caller numbers its documents; while the collection is small it also
\* inserts a second document numbered 1 and uses the tag in its queries
ModelDocuments ==
    {Document(Len(mData) + 1, "sa")} \cup
    (IF Len(mData) <= MaxTagged THEN {Document(1, "sb")} ELSE {})

ModelQueries ==
    {<<>>} \cup (IF Len(mData) <= MaxTagged THEN {<< <<"tag", "sb">> >>} ELSE {})

ModelUpdates == {<< <<"tag", "sb">> >>}

NextModel ==
    \/ ModelConstruct
    \/ \E document \in ModelDocuments : ModelInsert(document)
    \/ /\ Len(mData) <= MaxTagged
       /\ \E query \in ModelQueries : \E updateFields \in ModelUpdates :
             ModelUpdate(query, updateFields)
    \/ \E query \in ModelQueries : ModelDelete(query)

SpecModel == Init /\ [][NextModel]_vars

(***************************************************************************)
(* Claims about validateDocument, under SpecValidate.                      *)
(***************************************************************************)
\* the value matches the type its field definition declares; the document
\* conforms to the schema: every field it has matches its definition, and
\* it has every field the schema requires
RECURSIVE Matches(_, _)
RECURSIVE Conforms(_, _)
Matches(value, definition) ==
    LET type == Prop(definition, "type").s
        properties == Prop(definition, "properties")
        items == Prop(definition, "items")
    IN  CASE type \in {"string", "number", "boolean"} -> value.t = type
          [] type = "object" ->
                /\ value.t = "object"
                /\ properties.t = "object" => Conforms(value, properties)
          [] type = "array" ->
                /\ value.t = "array"
                /\ items.t = "object" =>
                      \A i \in DOMAIN value.items : Matches(value.items[i], items)
          [] OTHER -> FALSE

Conforms(document, schema) ==
    \A i \in DOMAIN schema.fields :
       LET value == Prop(document, schema.fields[i][1])
           definition == schema.fields[i][2]
       IN  IF value.t = "undefined"
           THEN Prop(definition, "required").s # "true"
           ELSE Matches(value, definition)

\* C20: validateDocument succeeds for every document that conforms to its
\* schema, for schemas of primitive fields, object fields with properties,
\* and array fields with or without an items definition, of primitive or
\* object items.
C20_ConformingDocumentIsValid ==
    (mValid.text # "not called" /\ Conforms(mDocument, mSchema)) => mValid.ok

\* the paths of the fields that the schema marks required and the document
\* lacks: at top level, inside a nested object, inside the elements of an
\* array of objects
RECURSIVE MissingRequired(_, _, _)
MissingRequired(document, schema, prefix) ==
    UNION {
       LET value == Prop(document, schema.fields[i][1])
           definition == schema.fields[i][2]
           type == Prop(definition, "type").s
           properties == Prop(definition, "properties")
           items == Prop(definition, "items")
           path == prefix \o <<schema.fields[i][1]>>
       IN  IF value.t = "undefined"
           THEN IF Prop(definition, "required").s = "true" THEN {path} ELSE {}
           ELSE IF type = "object" /\ properties.t = "object" /\ value.t = "object"
           THEN MissingRequired(value, properties, path)
           ELSE IF /\ type = "array"
                   /\ Prop(items, "type").s = "object"
                   /\ Prop(items, "properties").t = "object"
                   /\ value.t = "array"
           THEN UNION {MissingRequired(value.items[j], Prop(items, "properties"),
                           path \o <<(<<"[0]", "[1]", "[2]">>)[j]>>) :
                       j \in {k \in DOMAIN value.items : value.items[k].t = "object"}}
           ELSE {}
       : i \in DOMAIN schema.fields}

\* C21: a document that lacks a field its schema marks required (at top
\* level, inside a nested object, inside an element of an array of objects)
\* fails validation.  (The claim adds that the error names the path of
\* the first violation; a validation that succeeds names none.)
C21_MissingRequiredFails ==
    (/\ mValid.text # "not called"
     /\ MissingRequired(mDocument, mSchema, <<>>) # {}) => ~mValid.ok

(***************************************************************************)
(* Claims about the persisted documents, under SpecQuery.                  *)
(***************************************************************************)
\* the values of the type the schema of users declares for the field (type
\* is a property of the field definitions that src/PyxiCloud.js never reads):
\* email is a string, age a number
DeclaredValues(field) ==
    CASE field = "email" -> StrVals
      [] field = "age" -> NumVals

\* C22: every document of a persisted collection has every field its schema
\* marks required and holds, in each field the schema declares, a value of
\* the declared type, whatever insertOne, insertMany, updateOne and
\* updateMany requests were served.
C22_StoredDocumentsValid ==
    \A name \in Collections :
       \A i \in DOMAIN files[name].docs :
          \A k \in DOMAIN schemas[name].fields :
             LET doc == files[name].docs[i]
                 field == schemas[name].fields[k]
             IN  /\ field.required => Has(doc, field.name)
                 /\ Has(doc, field.name) =>
                       Get(doc, field.name) \in DeclaredValues(field.name)

(***************************************************************************)
(* The handshake, the encryption and the failures of the protocol, under   *)
(* Spec.                                                                   *)
(***************************************************************************)
\* the JSON text of a response, as sendSuccess and sendError send it
Plaintext(frame) == frame.status \in {"success", "error"}

\* C23: the step that accepts a connection sends it a frame, the
\* key-exchange offer, which is no response: nothing is sent on the
\* connection before it.
C23_OfferOnConnect ==
    [][\A ws \in ProtocolConns :
          (ws \notin clients /\ ws \in clients') =>
             /\ out' # <<>>
             /\ out'[1].to = ws
             /\ ~Plaintext(out'[1])]_vars

\* C24: no plaintext response is sent on a connection after its
\* authentication has succeeded.
C24_ResponsesEncrypted ==
    [][\A i \in DOMAIN out' :
          isAuthenticated[out'[i].to] => ~Plaintext(out'[i])]_vars

WrongUsername(ws) ==
    Event("Authenticate", RequestIdOf(ws), AuthData("wrong", ConfigPassword))
WrongPassword(ws) ==
    Event("Authenticate", RequestIdOf(ws), AuthData(ConfigUsername, "wrong"))

\* C25: on every open connection, in every state, an Authenticate with only
\* the username wrong and one with only the password wrong (both non-empty,
\* same requestId) get the same response and leave the same server state.
C25_WrongFieldNotRevealed ==
    \A ws \in clients :
       MessageHandler(ws, WrongUsername(ws)) =
          MessageHandler(ws, WrongPassword(ws))

\* such an Authenticate has just been refused on c1
C25_Witness ==
    /\ "c1" \in clients
    /\ ~isAuthenticated["c1"]
    /\ out = <<sendError("c1", Msg("Invalid credentials", ""),
                         RequestIdOf("c1"))>>
    /\ out = MessageHandler("c1", WrongUsername("c1")).state.sent

\* C26: no failure raised while handling a request escapes the handlers:
\* no promise is left rejected with nobody awaiting it.
C26_NoFailureEscapes == unhandled = 0

(***************************************************************************)
(* The rate limiter, under SpecLimit.                                      *)
(***************************************************************************)
\* the answer to a message the limiter rejected
RateLimitExceeded(ws) ==
    sendError(ws, Msg("Rate limit exceeded. Please try again later.", ""),
              UNDEF)

\* the timestamps of list that fall within the interval that starts at t
InWindow(list, t) ==
    LET within(x) == x >= t /\ x - t < interval
    IN  SelectSeq(list, within)

\* the timestamps of list that fall within the last interval
Recent(list) ==
    LET within(x) == now - x < interval
    IN  SelectSeq(list, within)

\* C27: the list of an address holds the times of its accepted messages: a
\* message of any connection of the address that is not answered with the
\* rate-limit error appends the present time to what the list holds of the
\* last 60 000 ms, a rejected message leaves the list as it was, no message
\* changes the list of another address, and no 60 000 ms window that starts
\* at an accepted message holds more than 100 of them.
C27_WindowQuota ==
    [][\A ws \in Sockets : \A m \in LimitFrames(ws) :
          (rateLimiter' # rateLimiter \/ out' # <<>>) /\ Message(ws, m) =>
             LET ip == clientIP(ws)
                 list == rateLimiter'[ip]
             IN  /\ \A other \in Addresses \ {ip} :
                       rateLimiter'[other] = rateLimiter[other]
                 /\ IF out' = <<RateLimitExceeded(ws)>>
                    THEN list = rateLimiter[ip]
                    ELSE /\ list = Append(Recent(rateLimiter[ip]), now)
                         /\ \A t \in {list[i] : i \in DOMAIN list} :
                               Len(InWindow(list, t)) <= limit]_vars

\* the quota of the first address is used up by both its connections, c2
\* has just been rejected, and the second address has had a message accepted
C27_Witness ==
    /\ Len(Recent(rateLimiter["ip1"])) = limit
    /\ isAuthenticated["c1"]
    /\ out = <<RateLimitExceeded("c2")>>
    /\ rateLimiter["ip2"] # <<>>

\* C28: a message of an address with 100 accepted messages in the last
\* 60 000 ms is answered with the rate-limit error, changes neither the
\* authentication state, the sessions, the schemas nor the collections and
\* leaves the connection in the active set; a message of an address with
\* fewer is handled as the message handler handles it, as soon as the
\* window has slid.
C28_RejectedThenAcceptedAgain ==
    [][\A ws \in Sockets : \A m \in LimitFrames(ws) :
          (rateLimiter' # rateLimiter \/ out' # <<>>) /\ Message(ws, m) =>
             IF Len(Recent(rateLimiter[clientIP(ws)])) >= limit
             THEN /\ out' = <<RateLimitExceeded(ws)>>
                  /\ UNCHANGED <<isAuthenticated, sessionToken, sessions,
                                 nextToken, schemas, schemaFiles, files,
                                 microtasks>>
                  /\ ws \in clients'
             ELSE /\ out' = OnMessage(ws, m).sent
                  /\ isAuthenticated' = OnMessage(ws, m).isAuthenticated
                  /\ sessions' = OnMessage(ws, m).sessions]_vars

\* the Authenticate of c1 has just been rejected and has left it
\* unauthenticated, a full interval after the first messages
C28_Witness ==
    /\ out = <<RateLimitExceeded("c1")>>
    /\ ~isAuthenticated["c1"]
    /\ sessions = {}
    /\ "c1" \in clients
    /\ now >= interval

(***************************************************************************)
(* The connection limit and the access lists, under SpecAccess.            *)
(***************************************************************************)
\* C29: the active set never holds more connections than
\* config.maxConnections.
C29_WithinMaxConnections == Cardinality(clients) <= config.maxConnections

\* the whitelist is enabled and does not hold the address of ws, or the
\* blacklist is enabled and holds it
Denied(ws) ==
    \/ config.ipWhitelist /\ clientIP(ws) \notin config.whitelistedIps
    \/ config.ipBlacklist /\ clientIP(ws) \in config.blacklistedIps

\* C30: a connection from a denied address is answered with the
\* access-denied error and is not added to the active set, so that the
\* active set never holds one and no message of one is handled; a
\* connection from any other address is added to the active set.
C30_AccessLists ==
    [][/\ \A ws \in clients' : ~Denied(ws)
       /\ \A ws \in Sockets :
             /\ Connect(ws) =>
                   IF Denied(ws)
                   THEN /\ ws \notin clients'
                        /\ Len(out') = 1
                        /\ out'[1].to = ws
                        /\ out'[1].status = "error"
                        /\ UNCHANGED <<isAuthenticated, sessions, rateLimiter>>
                   ELSE ws \in clients'
             /\ Denied(ws) => \A m \in AccessFrames(ws) : ~Message(ws, m)]_vars

\* c3 has just been turned away by the blacklist while c1, from the other
\* address, is connected and has authenticated
C30_Witness ==
    /\ config.ipBlacklist
    /\ Denied("c3")
    /\ out = <<sendError("c3", Msg("Access denied. IP in blacklist.", ""),
                         UNDEF)>>
    /\ "c3" \notin clients
    /\ "c1" \in clients
    /\ isAuthenticated["c1"]

(***************************************************************************)
(* The order of the requests of one connection, under Spec.                *)
(***************************************************************************)
\* C32: the handler of a message of a connection starts only once every
\* earlier request of that connection has had its response sent: no
\* continuation of the connection is suspended when it starts.
C32_ArrivalOrder ==
    [][\A ws \in ProtocolConns :
          (/\ \E i \in DOMAIN microtasks : microtasks[i].ws = ws
           /\ microtasks' # Tail(microtasks)) =>
             \A m \in ProtocolFrames(ws) : ~Message(ws, m)]_vars

\* a frame that parses and holds a string requestId, but is no valid event
Recoverable(m) ==
    /\ m.kind = "event"
    /\ m.requestId # UNDEF
    /\ ~validateEvent(m)

\* C35: the error response to a frame that is no valid event but holds a
\* string requestId (and that the rate limiter accepts) carries that
\* requestId.
C35_RequestIdRecovered ==
    [][\A ws \in ProtocolConns : \A m \in ProtocolFrames(ws) :
          (/\ Recoverable(m)
           /\ checkRateLimit(clientIP(ws), rateLimiter, now).ok
           /\ Message(ws, m)) =>
             /\ Len(out') = 1
             /\ out'[1].status = "error"
             /\ out'[1].requestId = m.requestId]_vars

(***************************************************************************)
(* updateOne, under SpecStore.                                             *)
(***************************************************************************)
\* C36: an updateOne that fails leaves the persisted collections as they
\* were; one that succeeds returns 0/0 and changes nothing when no document
\* matches, and otherwise returns 1/1, keeps the number of documents and
\* leaves every document but the first that matches as it was.
C36_UpdateOneFirstOnly ==
    [][StepOf({"updateOne"}) =>
       \A ws \in Conns : \A e \in EventsOf(ws, "updateOne") :
          Runs(ws, e) =>
             LET name == e.data.collectionName
                 docs == files[name].docs
                 m == FirstMatch(MatchResults(docs, e.data.query))
             IN  IF ~Suspended.ok THEN files' = files
                 ELSE IF m = 0
                 THEN /\ files'[name].docs = docs
                      /\ Suspended.value = Counts(0, 0)
                 ELSE /\ Len(files'[name].docs) = Len(docs)
                      /\ \A i \in DOMAIN docs :
                            i # m => files'[name].docs[i] = docs[i]
                      /\ Suspended.value = Counts(1, 1)]_vars

\* an updateOne whose query two documents match has changed the first and
\* left the second
C36_Witness ==
    /\ microtasks # <<>>
    /\ microtasks[1].operation = "updateOne"
    /\ microtasks[1].ok
    /\ microtasks[1].value = Counts(1, 1)
    /\ Len(files["users"].docs) = 2
    /\ Get(files["users"].docs[1], "age") = "n2"
    /\ Get(files["users"].docs[2], "age") = "n1"

(***************************************************************************)
(* Dotted paths and nested fields, under SpecNested.                       *)
(***************************************************************************)
\* the value at the path of keys in the document
NestedValue(doc, keys) ==
    IF Len(keys) = 1 THEN Get(doc, keys[1])
    ELSE PropertyOf(Get(doc, keys[1]), keys[2])

DottedKeys == {"address.city"}

\* C37: no stored document holds a top-level field literally named by a
\* dotted path: an update with such a key sets the nested value instead.
C37_NoLiteralDottedField ==
    \A name \in Collections : \A i \in DOMAIN files[name].docs :
       Keys(files[name].docs[i]) \cap DottedKeys = {}

NestedEventsOf(operation) ==
    {e \in NestedEvents("c1") : e.data.operation = operation}

\* C38: a find whose filter is a dotted key with a scalar value returns
\* every stored document that holds that value at the nested path.
C38_DottedFilterMatchesNested ==
    [][StepOf({"find"}) =>
       \A e \in NestedEventsOf("find") :
          (Runs("c1", e) /\ ~e.data.query.v[1][2].isObject) =>
             LET docs == files[e.data.collectionName].docs
                 key == e.data.query.v[1][1]
                 value == e.data.query.v[1][2].value
             IN  /\ Suspended.ok
                 /\ \A i \in DOMAIN docs :
                       NestedValue(docs[i], split(key)) = value =>
                          \E j \in DOMAIN Suspended.value.docs :
                             Suspended.value.docs[j] = docs[i]]_vars

\* Schema.getUniqueFields: the paths of the fields marked unique, each as
\* the sequence of its keys
RECURSIVE getUniqueFields(_, _)
getUniqueFields(schema, prefix) ==
    UNION {(IF schema[i].unique THEN {prefix \o <<schema[i].name>>} ELSE {})
           \cup (IF schema[i].properties # <<>>
                 THEN getUniqueFields(schema[i].properties,
                                      prefix \o <<schema[i].name>>)
                 ELSE {}) : i \in DOMAIN schema}

\* C39: an insertOne that succeeds stores a document that shares with no
\* document persisted before it a defined value of a field the schema marks
\* unique, at whatever depth.
C39_NestedUnique ==
    [][StepOf({"insertOne"}) =>
       \A e \in NestedEventsOf("insertOne") :
          (Runs("c1", e) /\ Suspended.ok) =>
             LET name == e.data.collectionName
                 docs == files[name].docs
                 stored == files'[name].docs[Len(files'[name].docs)]
             IN  \A keys \in getUniqueFields(schemas[name].fields, <<>>) :
                    \A i \in DOMAIN docs :
                       \/ NestedValue(stored, keys) = UNDEF
                       \/ NestedValue(docs[i], keys) # NestedValue(stored, keys)]_vars

(***************************************************************************)
(* The independence of the collections, under SpecNames.                   *)
(***************************************************************************)
\* whether the collection of that name is persisted, and its documents
CollectionOf(name) == aFiles[sanitizeFileName(name)]

\* C40: a step of a request on one collection name leaves the collection
\* of every other name as it was.
C40_NamesIndependent ==
    [][\A t \in Tasks :
          aTasks[t].pc # "idle" =>
             \A name \in AsyncNames \ {aTasks[t].collectionName} :
                CollectionOf(name)' = CollectionOf(name)]_vars

\* C31: at a heartbeat tick, a connection of the active set that was pinged
\* at the tick before and has sent no pong since is terminated and removed
\* from the active set, and one that has answered, or has connected since,
\* stays; when the 'close' event of a terminated connection is handled, its
\* session is removed from the session map
C31_Heartbeat ==
    [][/\ Heartbeat =>
            \A ws \in clients :
               IF ws \in silent
               THEN ws \notin clients' /\ ws \in terminated'
               ELSE ws \in clients' /\ ws \notin terminated'
       /\ \A ws \in terminated :
             Close(ws) =>
                /\ ws \notin clients'
                /\ sessionToken[ws] # 0 => sessionToken[ws] \notin sessions'
       /\ terminated' \subseteq terminated \cup silent]_vars

\* the heartbeat has terminated an authenticated connection whose session
\* is still in the map, and has kept one that answered its ping
C31_Witness ==
    /\ \E ws \in terminated :
          sessionToken[ws] # 0 /\ sessionToken[ws] \in sessions
    /\ \E ws \in clients : isAlive[ws] /\ ws \notin silent

\* the last count documents of the collection file
LastDocuments(count) == slice(mData, count)

Least(a, b) == IF a <= b THEN a ELSE b

\* C33: the cache holds exactly the last min(cacheSize, size) documents of
\* the collection file, in their order, so that find({}) returns them and
\* count({}) is min(cacheSize, size)
C33_CacheWindow ==
    /\ mCache = LastDocuments(Least(cacheSize, Len(mData)))
    /\ ModelFind(<<>>) = LastDocuments(Least(cacheSize, Len(mData)))
    /\ ModelCount(<<>>) = Least(cacheSize, Len(mData))

\* C34: at every tick of the backup timer, each snapshot older than the
\* retention window is removed and each snapshot within it is kept,
\* whatever schemas and collections exist
C34_RetentionAtEveryTick ==
    [][BackupTick =>
          \A b \in backups :
             IF now' - b.mtime > config.backupRetentionDays * (1000 * 3600 * 24)
             THEN b \notin backups'
             ELSE b \in backups']_vars

=============================================================================
